---- MODULE Spec2Model ----
(***************************************************************************)
(* A state-machine model of the procedural growth engine of the digital    *)
(* garden: LSystem.generate and LSystem.process (src/lsystem.js),          *)
(* ToxicPlant and EnhancedGarden (src/garden.js) and the MatterPhysics     *)
(* backend wrapper (src/unnamed/part_000).                                 *)
(*                                                                         *)
(* Conventions.  A string is a sequence of one-character strings.  Real    *)
(* numbers are fixed-point integers: lengths and coordinates in            *)
(* thousandths of a unit, the growth fraction in hundredths, probabilities *)
(* and random draws from [0,1) in hundredths, headings in steps of 15      *)
(* degrees.  Objects (bodies, constraints, plants) are identified by the   *)
(* natural number handed out when they are created.                        *)
(***************************************************************************)
EXTENDS Integers, Sequences, FiniteSets, TLC

VARIABLES
  \* ---- LSystem (src/lsystem.js)
  config,       \* the constructor's argument
  axiom,        \* this.axiom
  rules,        \* this.rules
  iterations,   \* this.iterations
  result,       \* generate(): let result
  genI,         \* generate(): the loop counter i
  genPc,        \* generate(): "idle", "loop", "exit" (after break), "done"
  picks,        \* history: the draws of random() in the last pass, by position
  production,   \* this.production
  lsys,         \* the LSystem fields process() reads: fruitProbability, colorVariation
  turtle,       \* process(): its locals, this.angle, and what it has emitted
  procI,        \* process(): the loop counter i
  procPc,       \* process(): "idle", "walk", "done", "threw"
  \* ---- ToxicPlant (src/garden.js) with its MatterPhysics
  plant,        \* the fields of one ToxicPlant, and the objects it created
  destroyed,    \* history: destroy() has been called on the plant
  lastCall,     \* history: the last method called on the plant
  lastResult,   \* history: "returned" or "threw"
  ticks,        \* history: the number of update() calls counted
  \* ---- EnhancedGarden (src/garden.js)
  plants,       \* this.plants: the plants by id, type and update() calls
  lastPlantTime,\* this.lastPlantTime, in ms
  clock,        \* millis(), in ms
  created,      \* history: the number of plants created so far
  gPc,          \* update(): "idle" or "update" (inside the loop)
  gI,           \* update(): the loop index i, counted from 1
  passes,       \* history: the number of update() passes begun
  passStart,    \* history: the ids in this.plants when the pass began
  passUpdated,  \* history: per id, the update() calls made in the pass
  passFaulted,  \* history: the ids whose update() threw in the pass
  destroyedPlants, \* history: the ids destroy() has been called on
  gLast,        \* history: the last garden method called, and its result
  limits,       \* the limits and inputs of the run; no step changes them
  \* ---- HandAttractors (src/handAttractors.js)
  attractors,   \* this.attractors
  isPinching,   \* this.isPinching
  forces        \* history: per body, the force the last update(hands) applied

genVars == <<config, axiom, rules, iterations, result, genI, genPc, picks>>
procVars == <<lsys, turtle, procI, procPc>>

plantVars == <<plant, destroyed, lastCall, lastResult, ticks>>

gardenVars == <<plants, lastPlantTime, clock, created, gPc, gI, passes,
                passStart, passUpdated, passFaulted, destroyedPlants, gLast,
                limits>>

handVars == <<attractors, isPinching, forces>>

vars == <<genVars, production, procVars, plantVars, gardenVars, handVars>>

\* ------------------------------------------------------------------------
\* Helpers
\* ------------------------------------------------------------------------
Min(a, b) == IF a < b THEN a ELSE b
Max(a, b) == IF a > b THEN a ELSE b

\* ------------------------------------------------------------------------
\* Bounds of the model
\* ------------------------------------------------------------------------
\* Largest iteration count a caller requests (the smallest is -1).
MaxRequested == 5
\* Longest production string the turtle is run on, symbol by symbol.
MaxProduction == 3
\* Largest turn of one '+' or '-', in heading steps.
MaxTurn == 24
\* The number of update() calls of a run that only ticks.
MaxTicks == 200
\* The last value of millis() at which the clock still advances, in ms.
MaxClock == 2400
\* The number of addAngleConstraints() runs a caller may bring about.
MaxAngleRuns == 2
\* The longest production of a plant under the hand.
MaxPinched == 12
\* The number of garden.update() passes of a run.
MaxPasses == 2

\* ------------------------------------------------------------------------
\* LSystem: the rule table and the grammars
\* ------------------------------------------------------------------------
\* The three kinds of rule generate() tells apart (lines 116-141).
Lit(body) == [kind |-> "string", body |-> body]
Weighted(entries) == [kind |-> "array", entries |-> entries]
Fn(outs) == [kind |-> "function", outs |-> outs]

\* A random draw of random() in [0,1), in hundredths.
Draws == {0, 29, 30, 49, 50, 79, 80, 99}

\* Math.min(config.iterations || 2, 4): the cap and the default.
MaxIterations == 4
DefaultIterations == 2
\* The safety cap on the production's length.
SafetyCap == 2000

DefaultAxiom == <<"F">>
DefaultRules ==
  ("F" :> Lit(<<"F", "F", "+", "[", "+", "F", "]", "-", "[", "-", "F", "]">>))

\* The preset grammars of the static factories.
SimplePlant ==
  [axiom |-> <<"F">>, iterations |-> 2,
   rules |-> ("F" :> Lit(<<"F", "F", "+", "[", "+", "F", "]", "-", "[", "-", "F", "]", "+", "[", "+", "F", "]", "-", "[", "-", "F", "]">>))]
Tree ==
  [axiom |-> <<"F">>, iterations |-> 3,
   rules |-> ("F" :> Lit(<<"F", "F", "[", "+", "F", "]", "[", "-", "F", "]", "[", "+", "F", "]">>))]
Fern ==
  [axiom |-> <<"X">>, iterations |-> 2,
   rules |-> ("X" :> Lit(<<"F", "-", "[", "[", "X", "]", "+", "X", "]", "+", "F", "[", "+", "F", "X", "]", "-", "X">>)) @@ ("F" :> Lit(<<"F", "F">>))]
Bush ==
  [axiom |-> <<"F">>, iterations |-> 3,
   rules |-> ("F" :> Lit(<<"F", "F", "+", "[", "+", "F", "]", "[", "-", "F", "]", "+", "[", "+", "F", "]", "[", "-", "F", "]">>))]
Flower ==
  [axiom |-> <<"X">>, iterations |-> 3,
   rules |-> ("X" :> Lit(<<"F", "[", "+", "X", "]", "[", "-", "X", "]", "F", "X">>)) @@ ("F" :> Lit(<<"F", "F", "F">>))]
CherryTree ==
  [axiom |-> <<"F">>, iterations |-> 2,
   rules |-> ("F" :> Lit(<<"F", "F", "F", "-", "[", "-", "F", "+", "F", "+", "F", "*", "]", "+", "[", "+", "F", "-", "F", "-", "F", "*", "]">>))]
Cactus ==
  [axiom |-> <<"F">>, iterations |-> 2,
   rules |-> ("F" :> Lit(<<"[", "+", "\"", "F", "]", "[", "-", "F", "]", "[", "+", "F", "]", "[", "-", "F", "]", "F", "F", "[", "+", "F", "]", "[", "-", "F", "]", "F", "F", "F">>))]
ThickBush ==
  [axiom |-> <<"F">>, iterations |-> 2,
   rules |-> ("F" :> Lit(<<"[", "+", "\"", "F", "]", "[", "\"", "F", "]", "[", "+", "F", "]", "F", "[", "+", "\"", "F", "]", "[", "\"", "F", "]", "[", "+", "F", "]", "[", "-", "F", "]", "F", "[", "+", "F", "]", "[", "-", "F", "]", "[", "+", "F", "]", "[", "-", "F", "]", "[", "+", "F", "]", "[", "-", "F", "]", "F", "F">>))]
BerryBush ==
  [axiom |-> <<"X">>, iterations |-> 3,
   rules |-> ("X" :> Lit(<<"F", "[", "-", "X", "]", "[", "+", "X", "]", "F", "X", "F", "F", "*">>)) @@ ("F" :> Lit(<<"F", "F", "*">>))]
CrystalPlant ==
  [axiom |-> <<"X">>, iterations |-> 2,
   rules |-> ("X" :> Lit(<<"F", "[", "-", "X", "]", "*", "[", "+", "X", "]", "*", "F", "X", "F", "[", "-", "X", "]", "*", "[", "+", "X", "]">>)) @@ ("F" :> Lit(<<"F", "*", "F">>))]
Presets ==
  {SimplePlant, Tree, Fern, Bush, Flower, CherryTree, Cactus, ThickBush,
   BerryBush, CrystalPlant}

\* Grammars a caller of the constructor can pass besides the presets: a
\* weighted rule whose probabilities sum to 0.8, a procedural rule, a rule
\* table with an empty replacement, an axiom longer than the safety cap.
WeightedGrammar ==
  [axiom |-> <<"A", "F">>,
   rules |-> ("A" :> Weighted(<<[rule |-> <<"A", "B">>, probability |-> 50],
                                [rule |-> <<"B">>, probability |-> 30]>>))]
ProceduralGrammar ==
  [axiom |-> <<"S">>,
   rules |-> ("S" :> Fn(<< <<"S", "F">>, <<"F", "+", "F">> >>))]
EmptyRuleGrammar ==
  [axiom |-> <<"F", "X">>,
   rules |-> ("F" :> Lit(<<>>)) @@ ("X" :> Lit(<<"F", "X">>))]
LongAxiomGrammar ==
  [axiom |-> [k \in 1..(SafetyCap + 1) |-> "F"],
   rules |-> ("F" :> Lit(<<"F", "G">>))]
CustomGrammars ==
  {WeightedGrammar, ProceduralGrammar, EmptyRuleGrammar, LongAxiomGrammar}

\* The arguments of new LSystem(config).  rulesGiven = FALSE is a config
\* with no rules field; iterations = 0 is also a config with none (both are
\* falsy), and an empty axiom a config with no axiom.
Configs ==
  {[axiom |-> g.axiom, rulesGiven |-> TRUE, rules |-> g.rules, iterations |-> n] :
     g \in {[axiom |-> p.axiom, rules |-> p.rules] : p \in Presets}
           \cup CustomGrammars,
     n \in (-1)..MaxRequested}
  \cup {[axiom |-> <<>>, rulesGiven |-> FALSE, rules |-> <<>>, iterations |-> n] :
          n \in (-1)..MaxRequested}

\* The constructor's field initialisers (lines 7-10).
CtorAxiom(c) == IF c.axiom # <<>> THEN c.axiom ELSE DefaultAxiom
CtorRules(c) == IF c.rulesGiven THEN c.rules ELSE DefaultRules
ClampIterations(n) == Min(IF n # 0 THEN n ELSE DefaultIterations, MaxIterations)

\* if (this.rules[current]): a missing entry and an empty string are falsy.
HasRule(table, current) ==
  /\ current \in DOMAIN table
  /\ ~(table[current].kind = "string" /\ table[current].body = <<>>)

\* The positions of result whose rule makes a random choice.
IsStochastic(table, current) ==
  HasRule(table, current) /\ table[current].kind \in {"array", "function"}
StochasticPositions(table, str) ==
  {j \in 1..Len(str) : IsStochastic(table, str[j])}

\* A walk that also takes the entry whose cumulative probability equals the
\* draw (<= for <).
RECURSIVE WalkWeightedInclusive(_, _, _, _, _)
WalkWeightedInclusive(entries, k, cumulativeProbability, rand, current) ==
  IF k > Len(entries) THEN <<current>>
  ELSE LET cum == cumulativeProbability + entries[k].probability
       IN IF rand <= cum THEN entries[k].rule
          ELSE WalkWeightedInclusive(entries, k + 1, cum, rand, current)

\* The walk over the cumulative probabilities (lines 121-137).
RECURSIVE WalkWeighted(_, _, _, _, _)
WalkWeighted(entries, k, cumulativeProbability, rand, current) ==
  IF k > Len(entries) THEN <<current>>
  ELSE LET cum == cumulativeProbability + entries[k].probability
       IN IF rand < cum THEN entries[k].rule
          ELSE WalkWeighted(entries, k + 1, cum, rand, current)

\* Replacement with the final else branch lost: a symbol with no rule is
\* dropped instead of kept.
ReplacementDroppingUnmatched(table, current, rand) ==
  IF HasRule(table, current)
  THEN CASE table[current].kind = "function" ->
              table[current].outs[(rand % Len(table[current].outs)) + 1]
         [] table[current].kind = "array" ->
              WalkWeighted(table[current].entries, 1, 0, rand, current)
         [] OTHER -> table[current].body
  ELSE <<>>

\* What one symbol contributes to nextGen (lines 114-145).
Replacement(table, current, rand) ==
  IF HasRule(table, current)
  THEN CASE table[current].kind = "function" ->
              table[current].outs[(rand % Len(table[current].outs)) + 1]
         [] table[current].kind = "array" ->
              WalkWeighted(table[current].entries, 1, 0, rand, current)
         [] OTHER -> table[current].body
  ELSE <<current>>

\* The inner loop: nextGen for the positions lo..hi of str.  The
\* concatenation is split in halves to keep the evaluation shallow; the
\* result is the left-to-right concatenation of the loop.
RECURSIVE Rewrite(_, _, _, _, _)
Rewrite(table, str, drawn, lo, hi) ==
  IF lo > hi THEN <<>>
  ELSE IF lo = hi
       THEN Replacement(table, str[lo],
                        IF lo \in DOMAIN drawn THEN drawn[lo] ELSE 0)
       ELSE LET mid == (lo + hi) \div 2
            IN Rewrite(table, str, drawn, lo, mid)
                 \o Rewrite(table, str, drawn, mid + 1, hi)

NextGen(drawn) == Rewrite(rules, result, drawn, 1, Len(result))

Truncate(str) == SubSeq(str, 1, Min(Len(str), SafetyCap))

\* ------------------------------------------------------------------------
\* LSystem.process: the turtle
\* ------------------------------------------------------------------------
\* A number kept exactly as a fraction n/d (thickness, this.angle).
Frac(n, d) == [n |-> n, d |-> d]
Times(f, n, d) == [n |-> f.n * n, d |-> f.d * d]

\* One heading step, 30 degrees, in thousandths of a degree; cos and sin of
\* the twelve headings times the step length 10, in thousandths.
HeadingUnit == 30 * 1000
Cos10 == <<10000, 8660, 5000, 0, -5000, -8660, -10000, -8660, -5000, 0, 5000, 8660>>
Sin10 == <<0, 5000, 8660, 10000, 8660, 5000, 0, -5000, -8660, -10000, -8660, -5000>>
StepX(angle) == Cos10[(angle % 12) + 1]
StepY(angle) == Sin10[(angle % 12) + 1]

\* config.angle || PI / 7, in thousandths of a degree.
DefaultAngle == 25714
CtorAngle(a) == IF a # 0 THEN a ELSE DefaultAngle

\* The symbols process() gives a meaning to, and one it ignores.
DrawSymbols == {"F", "G"}
TurnSymbols == {"+", "-"}
AngleScaleSymbols == {"<", ">"}
ThicknessSymbols == {"!", "\""}
KnownSymbols ==
  DrawSymbols \cup TurnSymbols \cup AngleScaleSymbols \cup ThicknessSymbols
    \cup {"f", "[", "]", "*", "c"}
Alphabet == KnownSymbols \cup {"X"}

\* The turns this.angle * random(0.8, 3) can make, in heading steps: the
\* multiples of the heading unit in [0.8 a, 3 a).
TurnChoices(a) ==
  {k \in 0..MaxTurn :
     /\ 8 * a.n <= 10 * k * HeadingUnit * a.d
     /\ k * HeadingUnit * a.d < 3 * a.n}

\* The random draws one symbol consumes: the turn of '+' and '-', and for
\* '*' the draw compared with fruitProbability and the draw of the size.
NoDraw == [turn |-> 0, fruit |-> 0, size |-> 0]
FruitDraws == {39, 40}
SizeDraws == {0, 99}
StepDraws(t, char) ==
  IF char \in TurnSymbols
  THEN {[turn |-> k, fruit |-> 0, size |-> 0] : k \in TurnChoices(t.thisAngle)}
  ELSE IF char = "*"
       THEN {[turn |-> 0, fruit |-> f, size |-> s] : f \in FruitDraws, s \in SizeDraws}
       ELSE {NoDraw}

\* The locals of process() before the loop (lines 164-175).
TurtleStart(a) ==
  [x |-> 0, y |-> 0, angle |-> -3, thickness |-> Frac(1, 1),
   color |-> "stemColor", stack |-> <<>>, segments |-> <<>>, fruits |-> <<>>,
   thisAngle |-> Frac(a, 1), threw |-> FALSE]

\* isRoot: stack.length === 0 && oldY >= -1.
IsRootSegment(stack, oldY) == stack = <<>> /\ oldY >= -1000

\* case 'F', 'G' (lines 182-200).
DrawForward(t) ==
  LET oldX == t.x
      oldY == t.y
      nx == t.x + StepX(t.angle)
      ny == t.y + StepY(t.angle)
  IN [t EXCEPT !.x = nx, !.y = ny,
               !.segments = Append(@,
                 [x1 |-> oldX, y1 |-> oldY, x2 |-> nx, y2 |-> ny,
                  depth |-> Len(t.stack), thickness |-> t.thickness,
                  originalAngle |-> t.angle, color |-> t.color,
                  isRoot |-> IsRootSegment(t.stack, oldY)])]

\* case 'f' (lines 202-205).
MoveForward(t) ==
  [t EXCEPT !.x = t.x + StepX(t.angle), !.y = t.y + StepY(t.angle)]

\* case '[' (lines 223-227).
PushState(t) ==
  [t EXCEPT !.stack = Append(@, [x |-> t.x, y |-> t.y, angle |-> t.angle,
                                 thickness |-> t.thickness, color |-> t.color]),
            !.thickness = Times(@, 3, 4)]

\* A pop that does not restore the thickness.
PopStateKeepingThickness(t) ==
  IF Len(t.stack) > 0
  THEN LET state == t.stack[Len(t.stack)]
       IN [t EXCEPT !.stack = SubSeq(@, 1, Len(@) - 1),
                    !.x = state.x, !.y = state.y, !.angle = state.angle,
                    !.color = state.color]
  ELSE t

\* case ']' (lines 229-238).
PopState(t) ==
  IF Len(t.stack) > 0
  THEN LET state == t.stack[Len(t.stack)]
       IN [t EXCEPT !.stack = SubSeq(@, 1, Len(@) - 1),
                    !.x = state.x, !.y = state.y, !.angle = state.angle,
                    !.thickness = state.thickness, !.color = state.color]
  ELSE t

\* case '*' (lines 248-258): random(5, 12) is 5 + 7 * draw.
AddFruit(t, ls, d) ==
  IF d.fruit < ls.fruitProbability
  THEN [t EXCEPT !.fruits = Append(@,
         [x |-> t.x, y |-> t.y, size |-> 5000 + 70 * d.size,
          color |-> "fruitColor", angle |-> t.angle])]
  ELSE t

\* case 'c' (lines 260-272): the local color (line 175) hides the function
\* color(), so the call color(...) is a call of a color value: a TypeError.
ChangeColor(t, ls) ==
  IF ls.colorVariation THEN [t EXCEPT !.threw = TRUE] ELSE t

\* One pass of the loop of process(): the switch on char.
TurtleStep(t, ls, char, d) ==
  CASE char \in DrawSymbols -> DrawForward(t)
    [] char = "f" -> MoveForward(t)
    [] char = "+" -> [t EXCEPT !.angle = @ + d.turn]
    [] char = "-" -> [t EXCEPT !.angle = @ - d.turn]
    [] char = "<" -> [t EXCEPT !.thisAngle = Times(@, 4, 5)]
    [] char = ">" -> [t EXCEPT !.thisAngle = Times(@, 5, 4)]
    [] char = "[" -> PushState(t)
    [] char = "]" -> PopState(t)
    [] char = "!" -> [t EXCEPT !.thickness = Times(@, 4, 5)]
    [] char = "\"" -> [t EXCEPT !.thickness = Times(@, 6, 5)]
    [] char = "*" -> AddFruit(t, ls, d)
    [] char = "c" -> ChangeColor(t, ls)
    [] OTHER -> t

\* process() run to its end on str with the draws tape[i] for symbol i
\* (positions lo..hi, split in halves to keep the evaluation shallow); a
\* throw ends the walk.
RECURSIVE Walk(_, _, _, _, _, _)
Walk(t, ls, str, tape, lo, hi) ==
  IF lo > hi \/ t.threw THEN t
  ELSE IF lo = hi THEN TurtleStep(t, ls, str[lo], tape[lo])
       ELSE LET mid == (lo + hi) \div 2
            IN Walk(Walk(t, ls, str, tape, lo, mid), ls, str, tape, mid + 1, hi)

Interpret(ls, str, tape) ==
  Walk(TurtleStart(CtorAngle(ls.angle)), ls, str, tape, 1, Len(str))

\* The strings over the alphabet of length at most n.
RECURSIVE StringsUpTo(_)
StringsUpTo(n) ==
  IF n = 0 THEN {<<>>}
  ELSE LET shorter == StringsUpTo(n - 1)
       IN shorter \cup {Append(w, c) : w \in {v \in shorter : Len(v) = n - 1},
                                       c \in Alphabet}

\* The LSystem fields process() reads.
LsysConfigs ==
  {[angle |-> 30000, fruitProbability |-> 40, colorVariation |-> TRUE],
   [angle |-> 45000, fruitProbability |-> 100, colorVariation |-> FALSE],
   [angle |-> 0, fruitProbability |-> 0, colorVariation |-> FALSE]}

NoLsys == [angle |-> 0, fruitProbability |-> 0, colorVariation |-> FALSE]

ProcIdle ==
  /\ lsys = NoLsys
  /\ turtle = TurtleStart(DefaultAngle)
  /\ procI = 0
  /\ procPc = "idle"

\* ------------------------------------------------------------------------
\* MatterPhysics (src/unnamed/part_000)
\* ------------------------------------------------------------------------
\* null / undefined, where an object is expected.
Null == 0

\* new MatterPhysics(): the tracking collections and the composite (the
\* set of the bodies and constraints it holds).  The three boundary bodies
\* of the world are no point masses and are left out.
NewPhysics ==
  [bodies |-> <<>>, springs |-> <<>>, fixedBodies |-> {}, composite |-> {}]

\* The objects a plant has created, in creation order: an object is named
\* by its index.  createdAs and bySegment are history fields of a body: what
\* it was created for.
LastObject(p) == Len(p.objects)

\* createParticle(x, y, mass, isFixed) (lines 73-104); the new body is
\* LastObject of the result.
CreateParticle(p, x, y, mass, isFixed, createdAs, bySegment) ==
  LET body == [type |-> "body", x |-> x, y |-> y, mass |-> Times(mass, 50, 1),
               isStatic |-> isFixed,
               createdAs |-> createdAs, bySegment |-> bySegment]
      id == Len(p.objects) + 1
  IN [p EXCEPT !.objects = Append(@, body),
               !.physics.composite = @ \cup {id},
               !.physics.bodies = Append(@, id),
               !.physics.fixedBodies = IF isFixed THEN @ \cup {id} ELSE @]

\* The rest length of a spring: given, or (restLength < 0) the distance of
\* the two bodies, kept as the differences of their coordinates.
DefaultLength == [kind |-> "default"]
GivenLength(v) == [kind |-> "given", value |-> v]
DistanceLength(a, b) == [kind |-> "distance", dx |-> a.x - b.x, dy |-> a.y - b.y]

\* createSpring(particleA, particleB, strength, restLength) (lines 107-146):
\* no change when a particle is missing (it returns null); else the new
\* constraint is LastObject of the result.
\* A safety check that looks at the first particle only.
SpringCreatedLoose(particleA, particleB) == particleA # Null
SpringCreated(particleA, particleB) == particleA # Null /\ particleB # Null
CreateSpring(p, particleA, particleB, strength, restLength) ==
  IF ~SpringCreated(particleA, particleB) THEN p
  ELSE LET constraint ==
             [type |-> "constraint", a |-> particleA, b |-> particleB,
              length |-> IF restLength.kind = "default"
                         THEN DistanceLength(p.objects[particleA], p.objects[particleB])
                         ELSE restLength,
              stiffness |-> Times(strength, 5, 1)]
           id == Len(p.objects) + 1
       IN [p EXCEPT !.objects = Append(@, constraint),
                    !.physics.composite = @ \cup {id},
                    !.physics.springs = Append(@, id)]

\* createAngleConstraint(particleA, particleB, particleC, targetAngle,
\* strength) (lines 149-190): nothing for a missing particle or a zero
\* length; else a spring between A and C whose rest length follows from the
\* law of cosines.
AngleSpringCreated(p, particleA, particleB, particleC) ==
  /\ particleA # Null /\ particleB # Null /\ particleC # Null
  /\ LET a == p.objects[particleA]
         b == p.objects[particleB]
         c == p.objects[particleC]
     IN ~(a.x = b.x /\ a.y = b.y) /\ ~(b.x = c.x /\ b.y = c.y)
CreateAngleConstraint(p, particleA, particleB, particleC, targetAngle, strength) ==
  IF ~AngleSpringCreated(p, particleA, particleB, particleC) THEN p
  ELSE CreateSpring(p, particleA, particleC, Times(strength, 5, 100),
         [kind |-> "cosines",
          ab |-> DistanceLength(p.objects[particleB], p.objects[particleA]),
          bc |-> DistanceLength(p.objects[particleC], p.objects[particleB]),
          angle |-> targetAngle])

\* A clear() that forgets to empty the list of springs.
ClearKeepingSprings(p) ==
  [p EXCEPT !.physics.composite = {},
            !.physics.bodies = <<>>,
            !.physics.fixedBodies = {}]
\* clear() (lines 204-216): a new, empty composite replaces the old one in
\* the world, and the tracking collections are emptied.
Clear(p) ==
  [p EXCEPT !.physics.composite = {},
            !.physics.springs = <<>>,
            !.physics.bodies = <<>>,
            !.physics.fixedBodies = {}]

\* ------------------------------------------------------------------------
\* ToxicPlant (src/garden.js)
\* ------------------------------------------------------------------------
\* growthRate 0.03, targetGrowth 1 and the threshold 0.1 of update(), in
\* hundredths.
GrowthRate == 3
TargetGrowth == 100
GrowthThreshold == 10
\* slice(0, 3) of setupInitialRoot; segments.length / 50 of growPlant.
RootSegments == 3
BatchDivisor == 50

\* v.toFixed(2) for v in thousandths: the sign and the hundredths, rounded
\* half up; a negative v that rounds to zero gives "-0.00".
ToFixed2(v) ==
  IF v < 0 THEN <<"-", (5 - v) \div 10>> ELSE <<"", (v + 5) \div 10>>
PointKey(x, y) == <<ToFixed2(x), ToFixed2(y)>>
StartKey(segment) == PointKey(segment.x1, segment.y1)
EndKey(segment) == PointKey(segment.x2, segment.y2)

\* this.x + local * this.scaleFactor (scaleFactor in tenths).
ToWorld(origin, local, scaleFactor) == origin + (local * scaleFactor) \div 10

\* map(depth, 0, 10, from, to) * thicknessFactor, from and to in units of 1/den.
MapDepth(depth, from, to, den, thickness) ==
  Frac((10 * from + (to - from) * depth) * thickness.n, 10 * den * thickness.d)

\* A particle map that treats every key as new: has() always false.
MapHasNever(map, key) == FALSE
\* Map.has, Map.get (undefined as Null) and Map.set.
MapHas(map, key) == key \in DOMAIN map
MapGet(map, key) == IF MapHas(map, key) THEN map[key] ELSE Null
MapSet(map, key, value) == (key :> value) @@ map

\* An end point that is fixed when its segment is a root segment.
EndIsFixedWhenRoot(segment) == segment.isRoot
\* The isFixed argument of the end point's createParticle (line 355).
EndIsFixed(segment) == FALSE

\* setupSegmentPhysics(segment) for the segment of index i (lines 315-376);
\* setups counts the runs of it for each segment.
SetupSegmentPhysics(p, i) ==
  LET segment == p.segments[i]
      x1 == ToWorld(p.x, segment.x1, p.scaleFactor)
      y1 == ToWorld(p.y, segment.y1, p.scaleFactor)
      x2 == ToWorld(p.x, segment.x2, p.scaleFactor)
      y2 == ToWorld(p.y, segment.y2, p.scaleFactor)
      startKey == StartKey(segment)
      endKey == EndKey(segment)
      p1 == IF MapHas(p.particleMap, startKey) THEN p
            ELSE LET q == CreateParticle(p, x1, y1,
                            MapDepth(segment.depth, 2000, 200, 1000, segment.thickness),
                            segment.isRoot, "start", i)
                 IN [q EXCEPT !.particleMap = MapSet(@, startKey, LastObject(q))]
      startParticle == p1.particleMap[startKey]
      p2 == IF MapHas(p1.particleMap, endKey) THEN p1
            ELSE LET q == CreateParticle(p1, x2, y2,
                            MapDepth(segment.depth, 500, 50, 1000, segment.thickness),
                            EndIsFixed(segment), "end", i)
                 IN [q EXCEPT !.particleMap = MapSet(@, endKey, LastObject(q))]
      endParticle == p2.particleMap[endKey]
      p3 == CreateSpring(p2, startParticle, endParticle,
                         MapDepth(segment.depth, 50, 10, 1000, segment.thickness),
                         DefaultLength)
      p4 == [p3 EXCEPT !.setups[i] = @ + 1]
  IN IF SpringCreated(startParticle, endParticle)
     THEN [p4 EXCEPT !.segmentToSpring = MapSet(@, i, LastObject(p4))]
     ELSE p4

\* TRUE of every plant: a test that makes TLC evaluate p before it descends.
Evaluated(p) == Len(p.objects) >= 0

\* setupSegmentPhysics for the segments of indices[lo..hi], in order.
RECURSIVE SetupAll(_, _, _, _)
SetupAll(p, indices, lo, hi) ==
  IF lo > hi \/ ~Evaluated(p) THEN p
  ELSE IF lo = hi THEN SetupSegmentPhysics(p, indices[lo])
  ELSE LET mid == (lo + hi) \div 2
       IN SetupAll(SetupAll(p, indices, lo, mid), indices, mid + 1, hi)

\* The indices 1..n of the depth-0 segments, in order.
DepthZero(segments, n) ==
  LET zero == {i \in 1..n : segments[i].depth = 0}
  IN [k \in 1..Cardinality(zero) |->
        CHOOSE i \in zero : Cardinality({j \in zero : j <= i}) = k]

\* setupInitialRoot() (lines 301-312).
SetupInitialRoot(p) ==
  LET depthZero == DepthZero(p.segments, Len(p.segments))
      rootSegments == SubSeq(depthZero, 1, Min(Len(depthZero), RootSegments))
      q == SetupAll(p, rootSegments, 1, Len(rootSegments))
  IN [q EXCEPT !.lastSegmentIndex = Len(rootSegments)]

\* The pairs <<i, j>>, i < j, of segments with one start key, in the order
\* addAngleConstraints visits them: by the first segment of the start key,
\* then by i, then by j (lines 460-480).
FirstWithKey(segments, i) ==
  CHOOSE k \in 1..i :
    /\ StartKey(segments[k]) = StartKey(segments[i])
    /\ \A m \in 1..(k - 1) : StartKey(segments[m]) # StartKey(segments[i])
AnglePairs(segments) ==
  {<<i, j>> \in (1..Len(segments)) \X (1..Len(segments)) :
     i < j /\ StartKey(segments[i]) = StartKey(segments[j])}
\* The pairs as numbers that grow in the order of the visit.
PairCode(segments, pair) ==
  LET base == Len(segments) + 1
  IN (FirstWithKey(segments, pair[1]) * base + pair[1]) * base + pair[2]
PairOfCode(segments, code) ==
  LET base == Len(segments) + 1
  IN <<(code \div base) % base, code % base>>
InOrder(segments, pairs) ==
  LET codes == {PairCode(segments, pair) : pair \in pairs}
  IN [k \in 1..Cardinality(codes) |->
        PairOfCode(segments,
          CHOOSE c \in codes : Cardinality({e \in codes : e < c}) = k - 1)]

\* One pair of addAngleConstraints (lines 479-505).
AddAngleConstraint(p, pair) ==
  LET segmentA == p.segments[pair[1]]
      segmentB == p.segments[pair[2]]
      commonParticle == MapGet(p.particleMap, StartKey(segmentA))
      endParticleA == MapGet(p.particleMap, EndKey(segmentA))
      endParticleB == MapGet(p.particleMap, EndKey(segmentB))
      diff == segmentA.originalAngle - segmentB.originalAngle
      originalAngle == IF diff < 0 THEN -diff ELSE diff
  IN IF endParticleA = Null \/ endParticleB = Null THEN p
     ELSE CreateAngleConstraint(p, endParticleA, commonParticle, endParticleB,
            originalAngle, MapDepth(segmentA.depth, 100, 20, 10000, Frac(1, 1)))

RECURSIVE AddAngleConstraintsFor(_, _, _, _)
AddAngleConstraintsFor(p, pairs, lo, hi) ==
  IF lo > hi \/ ~Evaluated(p) THEN p
  ELSE IF lo = hi THEN AddAngleConstraint(p, pairs[lo])
  ELSE LET mid == (lo + hi) \div 2
       IN AddAngleConstraintsFor(AddAngleConstraintsFor(p, pairs, lo, mid),
                                 pairs, mid + 1, hi)

\* addAngleConstraints() (lines 456-510).
AddAngleConstraints(p) ==
  LET pairs == InOrder(p.segments, AnglePairs(p.segments))
  IN [AddAngleConstraintsFor(p, pairs, 1, Len(pairs))
        EXCEPT !.angleRuns = @ + 1]

\* The squared distance of two points, in hundredths of a unit squared.
DistSq(x1, y1, x2, y2) ==
  LET dx == (x1 - x2) \div 100
      dy == (y1 - y2) \div 100
  IN dx * dx + dy * dy

\* The particle of the map nearest to (x, y): the first of the nearest, in
\* the map's insertion order, which is the order of creation (lines 419-428).
NearestParticle(p, x, y) ==
  LET particles == {p.particleMap[k] : k \in DOMAIN p.particleMap}
      d(b) == DistSq(x, y, p.objects[b].x, p.objects[b].y)
  IN IF particles = {} THEN Null
     ELSE CHOOSE b \in particles :
            \A c \in particles \ {b} : d(b) < d(c) \/ (d(b) = d(c) /\ b < c)

\* One fruit of addFruits (lines 413-452).
AddFruit1(p, fruit) ==
  LET x == ToWorld(p.x, fruit.x, p.scaleFactor)
      y == ToWorld(p.y, fruit.y, p.scaleFactor)
      nearestParticle == NearestParticle(p, x, y)
  IN IF nearestParticle = Null THEN p
     ELSE LET q == CreateParticle(p, x, y, Frac(3, 10), FALSE, "fruit", 0)
              fruitParticle == LastObject(q)
              r == CreateSpring(q, nearestParticle, fruitParticle, Frac(5, 1000),
                                GivenLength((fruit.size * 12) \div 10))
          IN [r EXCEPT !.fruitParticles = Append(@, fruitParticle)]

RECURSIVE AddFruitsFrom(_, _, _)
AddFruitsFrom(p, lo, hi) ==
  IF lo > hi \/ ~Evaluated(p) THEN p
  ELSE IF lo = hi THEN AddFruit1(p, p.fruits[lo])
  ELSE LET mid == (lo + hi) \div 2
       IN AddFruitsFrom(AddFruitsFrom(p, lo, mid), mid + 1, hi)

\* addFruits() (lines 410-453).
AddFruits(p) ==
  [(IF Len(p.fruits) = 0 THEN p ELSE AddFruitsFrom(p, 1, Len(p.fruits)))
     EXCEPT !.fruitRuns = @ + 1]

\* A batch that is not raised to one segment.
BatchSizeFloor(p) == Len(p.segments) \div BatchDivisor
\* A batch of a fifth of the segments (a divisor of 5 for 50).
BatchSizeFifth(p) == Max(1, Len(p.segments) \div 5)
\* Math.max(1, Math.floor(this.segments.length / 50)) (line 386).
BatchSize(p) == Max(1, Len(p.segments) \div BatchDivisor)
\* endIndex of growPlant (lines 386-387).
EndIndex(p) == Min(p.lastSegmentIndex + BatchSize(p), Len(p.segments))

\* A test that lets the constraints in once half of the segments are built.
HalfBuilt(p) == 2 * p.lastSegmentIndex >= Len(p.segments)
\* A threshold written as 1.2 for 0.8: no counter reaches it.
OverBuilt(p) == 5 * p.lastSegmentIndex >= 6 * Len(p.segments)
\* The threshold of the angle constraints: lastSegmentIndex >= length * 0.8.
MostlyBuilt(p) == 5 * p.lastSegmentIndex >= 4 * Len(p.segments)

\* growPlant() (lines 379-407).
GrowPlant(p) ==
  IF p.lastSegmentIndex >= Len(p.segments)
  THEN [p EXCEPT !.growingPhase = FALSE]
  ELSE LET endIndex == EndIndex(p)
           p1 == SetupAll(p, [k \in 1..endIndex |-> k],
                          p.lastSegmentIndex + 1, endIndex)
           p2 == [p1 EXCEPT !.lastSegmentIndex = endIndex]
           p3 == IF MostlyBuilt(p2) /\ ~p2.constraintsAdded
                 THEN [AddAngleConstraints(p2) EXCEPT !.constraintsAdded = TRUE]
                 ELSE p2
       IN IF p3.lastSegmentIndex >= Len(p3.segments) /\ Len(p3.fruits) > 0
             /\ ~p3.fruitsAdded
          THEN [AddFruits(p3) EXCEPT !.fruitsAdded = TRUE]
          ELSE p3

\* A growth step without the cap at targetGrowth.
GrowUncapped(growth) == IF growth < TargetGrowth THEN growth + GrowthRate
                        ELSE growth
\* The growth step of update() (lines 515-520).
Grow(growth) == IF growth < TargetGrowth
                THEN Min(growth + GrowthRate, TargetGrowth)
                ELSE growth

\* targetSegments of update() (lines 525-526), in exact arithmetic.
TargetSegments(p) == (p.growth * p.totalSegments) \div TargetGrowth

\* An update() that calls growPlant() without comparing the counter with
\* targetSegments.
UpdateUnguarded(p) ==
  LET q == [p EXCEPT !.growth = Grow(@)]
  IN IF q.growingPhase /\ q.growth > GrowthThreshold
     THEN GrowPlant(q)
     ELSE q

\* update() (lines 513-535).  The engine step of physics.update() moves
\* bodies and leaves the tracked structure as it is.
Update(p) ==
  LET q == [p EXCEPT !.growth = Grow(@)]
  IN IF q.growingPhase /\ q.growth > GrowthThreshold
        /\ q.lastSegmentIndex < TargetSegments(q)
     THEN GrowPlant(q)
     ELSE q

\* destroy() (lines 680-682).
Destroy(p) == Clear(p)

\* new ToxicPlant(x, y, type) (lines 214-298), given what
\* this.lsystem.process() returned.
NewPlant(x, y, scaleFactor, walked) ==
  SetupInitialRoot(
    [x |-> x, y |-> y, scaleFactor |-> scaleFactor,
     growth |-> 0, segments |-> walked.segments, fruits |-> walked.fruits,
     physics |-> NewPhysics, objects |-> <<>>,
     particleMap |-> <<>>, segmentToSpring |-> <<>>, fruitParticles |-> <<>>,
     lastSegmentIndex |-> 0, totalSegments |-> Len(walked.segments),
     growingPhase |-> TRUE, constraintsAdded |-> FALSE, fruitsAdded |-> FALSE,
     angleRuns |-> 0, fruitRuns |-> 0,
     setups |-> [i \in 1..Len(walked.segments) |-> 0]])


\* ------------------------------------------------------------------------
\* The plants of the model
\* ------------------------------------------------------------------------
\* generate() for a rule table of literal rules.
RECURSIVE Generate(_, _, _)
Generate(table, str, n) ==
  IF n <= 0 THEN str
  ELSE LET nextGen == Rewrite(table, str, <<>>, 1, Len(str))
       IN IF Len(nextGen) > SafetyCap THEN Truncate(nextGen)
          ELSE Generate(table, nextGen, n - 1)
PresetProduction(g) == Generate(g.rules, g.axiom, ClampIterations(g.iterations))

\* The draws of a walk in which every '+' and '-' turns by turn heading
\* steps and every fruit draw is 0.
ConstantTape(str, turn) ==
  [j \in 1..Len(str) |-> [turn |-> turn, fruit |-> 0, size |-> 50]]

Ls(angle, fruitProbability) ==
  [angle |-> angle, fruitProbability |-> fruitProbability, colorVariation |-> FALSE]

\* What a plant is grown from: the LSystem fields, the production and the
\* turn of its walk.  Small productions, and the preset of the default type.
PlantInputs ==
  {[ls |-> Ls(30000, 0), production |-> <<"F">>, turn |-> 1],
   [ls |-> Ls(30000, 0), production |-> <<"F", "F">>, turn |-> 1],
   [ls |-> Ls(30000, 0), production |-> <<"F", "F", "F">>, turn |-> 1],
   [ls |-> Ls(30000, 100), production |-> <<"F", "F", "F", "F", "*">>, turn |-> 1],
   [ls |-> Ls(30000, 0),
    production |-> <<"F", "[", "+", "F", "]", "[", "-", "F", "]">>, turn |-> 1],
   [ls |-> Ls(30000, 100),
    production |-> <<"F", "[", "+", "F", "]", "F", "[", "-", "F", "]", "F", "*">>,
    turn |-> 2],
   [ls |-> Ls(45000, 0), production |-> <<"+", "F", "F">>, turn |-> 3],
   [ls |-> Ls(180000, 100),
    production |-> <<"F", "[", "+", "F", "*", "]", "[", "+", "F", "]", "F">>,
    turn |-> 12],
   [ls |-> Ls(0, 0), production |-> DefaultRules["F"].body, turn |-> 1],
   [ls |-> Ls(30000, 0), production |-> <<"[", "F", "]">>, turn |-> 1],
   [ls |-> Ls(30000, 100), production |-> <<"F", "F", "*">>, turn |-> 1],
   [ls |-> Ls(30000, 0), production |-> PresetProduction(SimplePlant), turn |-> 1]}

\* Larger plants, for the runs that only tick: a trunk of 99 segments, and
\* the presets of the types 'tree' and 'cherry'.
LongInputs ==
  {[ls |-> Ls(30000, 0), production |-> [k \in 1..99 |-> "F"], turn |-> 1],
   [ls |-> Ls(25714, 0), production |-> PresetProduction(Tree), turn |-> 2],
   [ls |-> Ls(180000, 40), production |-> PresetProduction(CherryTree), turn |-> 5]}

\* this.scaleFactor = random(0.6, 1.8), in tenths.
ScaleFactors == {6, 17}

\* Where the plant is created, in thousandths: (100, 500).
PlantX == 100 * 1000
PlantY == 500 * 1000

NoPlant == NewPlant(0, 0, 10, TurtleStart(DefaultAngle))

PlantIdle ==
  /\ plant = NoPlant
  /\ destroyed = FALSE
  /\ lastCall = "none"
  /\ lastResult = "none"
  /\ ticks = 0


\* ------------------------------------------------------------------------
\* EnhancedGarden (src/garden.js)
\* ------------------------------------------------------------------------
\* this.maxPlants and this.minTimeBetweenPlants (ms).
MaxPlants == 18
MinTimeBetweenPlants == 600
\* The plant types of the model, out of this.plantTypes.
GardenTypes == {"simple", "tree"}
\* The step of the clock between two handlers, in ms.
ClockStep == 300

\* new ToxicPlant(x, y, type) as the garden holds it: its id, what it was
\* made from, and the number of update() calls that have returned.
GardenPlant(id, x, type) == [id |-> id, x |-> x, type |-> type, updates |-> 0]
Ids(ps) == {ps[k].id : k \in 1..Len(ps)}

\* A removal of the first plant instead of the plant at index i.
RemoveFirst(ps, i) == Tail(ps)
\* this.plants.splice(i, 1), i counted from 1.
RemoveAt(ps, i) == SubSeq(ps, 1, i - 1) \o SubSeq(ps, i + 1, Len(ps))

\* A short run with any plant types and any faults, and a long run in
\* which the clock stops when a creation is due, of one plant type and at
\* most one pass with one fault, that fills the garden beyond its capacity:
\* the last clock value, the longest wait after an accepted creation, the
\* passes, the faults of a pass, the types.
ShortRun ==
  [clock |-> MaxClock, idle |-> MaxClock, passes |-> MaxPasses,
   faults |-> MaxPlants, types |-> GardenTypes]
LongRun ==
  [clock |-> (MaxPlants + 2) * MinTimeBetweenPlants,
   idle |-> MinTimeBetweenPlants, passes |-> 1, faults |-> 1,
   types |-> {"simple"}]

\* What a garden method leaves in gLast.
Called(method, value) == [call |-> method, result |-> value]

\* The garden after its constructor (lines 4-18), at program start.
GardenStart(run) ==
  /\ limits = run
  /\ gLast = Called("none", "none")
  /\ plants = <<>>
  /\ lastPlantTime = 0
  /\ clock = 0
  /\ created = 0
  /\ gPc = "idle"
  /\ gI = 0
  /\ passes = 0
  /\ passStart = <<>>
  /\ passUpdated = <<>>
  /\ passFaulted = {}
  /\ destroyedPlants = {}

GardenIdle == GardenStart(ShortRun)


\* ------------------------------------------------------------------------
\* HandAttractors (src/handAttractors.js)
\* ------------------------------------------------------------------------
\* attractionStrength 0.2 and maxForce 0.1, in thousandths;
\* attractionRadius 60 and the pinch threshold 35, in thousandths of a pixel.
AttractionStrength == 200
MaxForce == 100
AttractionRadius == 60 * 1000
PinchThreshold == 35 * 1000
\* height of the canvas: plants are created at y = height - 10; the
\* planting strip of checkPlantInteractions lies below height - 20.
CanvasHeight == PlantY + 10 * 1000
PlantingStrip == CanvasHeight - 20 * 1000

\* Math.sqrt, rounded down, for the squares below the squared radius.
Isqrt(v) == CHOOSE r \in 0..((AttractionRadius \div 100) + 1) :
              r * r <= v /\ v < (r + 1) * (r + 1)

\* What applyAttractionToPlants does to one body (lines 130-155): nothing
\* to a static body or to one not nearer than the radius; else the force
\* dir * min(strength * (1 - distance / radius), maxForce), whose direction
\* (dx / distance, dy / distance) is 0 / 0 = NaN at distance 0.
NoForce == [kind |-> "none"]
NaNForce == [kind |-> "NaN"]
AttractionForce(attractor, body) ==
  LET dx == attractor.x - body.x
      dy == attractor.y - body.y
      distSq == DistSq(attractor.x, attractor.y, body.x, body.y)
      radius == AttractionRadius \div 100
  IN IF body.isStatic THEN NoForce
     ELSE IF ~(distSq < radius * radius) THEN NoForce
     ELSE IF dx = 0 /\ dy = 0 THEN NaNForce
     ELSE [kind |-> "force", dx |-> dx, dy |-> dy,
           magnitude |-> Min((attractor.strength * (radius - Isqrt(distSq)))
                               \div radius, MaxForce)]

\* applyAttractionToPlants() on the bodies the plant's backend tracks.
ApplyAttractionToPlants(p, attractor) ==
  [b \in {p.physics.bodies[k] : k \in 1..Len(p.physics.bodies)} |->
     AttractionForce(attractor, p.objects[b])]

\* The hands of the model: thumb and index tip stand spread apart
\* vertically around a point at a horizontal offset from a body.
HandOffsets == {0, 30 * 1000, 60 * 1000, 90 * 1000}
HandSpreads == {0, 10 * 1000, 20 * 1000}
Hand(x, y, spread) ==
  [thumb_tip |-> [x |-> x, y |-> y + spread],
   index_finger_tip |-> [x |-> x, y |-> y - spread]]

HandIdle ==
  /\ attractors = <<>>
  /\ isPinching = FALSE
  /\ forces = <<>>

GenIdle ==
  /\ config = [axiom |-> <<>>, rulesGiven |-> FALSE, rules |-> <<>>, iterations |-> 0]
  /\ axiom = <<>>
  /\ rules = <<>>
  /\ iterations = 0
  /\ result = <<>>
  /\ genI = 0
  /\ genPc = "idle"
  /\ picks = <<>>

\* ------------------------------------------------------------------------
\* LSystem.generate, one action per pass of the outer loop
\* ------------------------------------------------------------------------
GenInit ==
  /\ config \in Configs
  /\ axiom = CtorAxiom(config)
  /\ rules = CtorRules(config)
  /\ iterations = ClampIterations(config.iterations)
  /\ result = axiom
  /\ genI = 0
  /\ genPc = "loop"
  /\ picks = <<>>
  /\ production = <<>>
  /\ ProcIdle
  /\ PlantIdle
  /\ GardenIdle
  /\ HandIdle

\* One pass whose nextGen stays within the cap.
GenIterate ==
  /\ genPc = "loop"
  /\ genI < iterations
  /\ \E drawn \in [StochasticPositions(rules, result) -> Draws] :
       LET nextGen == NextGen(drawn)
       IN /\ Len(nextGen) <= SafetyCap
          /\ result' = nextGen
          /\ picks' = drawn
  /\ genI' = genI + 1
  /\ UNCHANGED <<config, axiom, rules, iterations, genPc, production, procVars, plantVars, gardenVars, handVars>>

\* One pass whose nextGen is too long: truncate and break.
GenTruncate ==
  /\ genPc = "loop"
  /\ genI < iterations
  /\ \E drawn \in [StochasticPositions(rules, result) -> Draws] :
       LET nextGen == NextGen(drawn)
       IN /\ Len(nextGen) > SafetyCap
          /\ result' = Truncate(nextGen)
          /\ picks' = drawn
  /\ genPc' = "exit"
  /\ UNCHANGED <<config, axiom, rules, iterations, genI, production, procVars, plantVars, gardenVars, handVars>>

\* The loop is over: this.production = result.
GenReturn ==
  /\ \/ genPc = "exit"
     \/ genPc = "loop" /\ genI >= iterations
  /\ production' = result
  /\ genPc' = "done"
  /\ UNCHANGED <<config, axiom, rules, iterations, result, genI, picks, procVars, plantVars, gardenVars, handVars>>

GenNext == GenIterate \/ GenTruncate \/ GenReturn

SpecGen == GenInit /\ [][GenNext]_vars

\* ------------------------------------------------------------------------
\* LSystem.process, one action per pass of its loop
\* ------------------------------------------------------------------------
ProcInit ==
  /\ GenIdle
  /\ production \in StringsUpTo(MaxProduction)
  /\ lsys \in LsysConfigs
  /\ turtle = TurtleStart(CtorAngle(lsys.angle))
  /\ procI = 0
  /\ procPc = "walk"
  /\ PlantIdle
  /\ GardenIdle
  /\ HandIdle

\* The pass for a symbol of the set symbols.
ProcPass(symbols) ==
  /\ procPc = "walk"
  /\ procI < Len(production)
  /\ production[procI + 1] \in symbols
  /\ \E d \in StepDraws(turtle, production[procI + 1]) :
       turtle' = TurtleStep(turtle, lsys, production[procI + 1], d)
  /\ procI' = procI + 1
  /\ procPc' = IF turtle'.threw THEN "threw" ELSE "walk"
  /\ UNCHANGED <<genVars, production, lsys, plantVars, gardenVars, handVars>>

ProcDraw == ProcPass(DrawSymbols)
ProcMove == ProcPass({"f"})
ProcTurn == ProcPass(TurnSymbols)
ProcScaleAngle == ProcPass(AngleScaleSymbols)
ProcPush == ProcPass({"["})
ProcPop == ProcPass({"]"})
ProcThickness == ProcPass(ThicknessSymbols)
ProcFruit == ProcPass({"*"})
ProcColor == ProcPass({"c"})
ProcIgnore == ProcPass(Alphabet \ KnownSymbols)

\* The loop is over: this.segments = segments; this.fruits = fruits.
ProcReturn ==
  /\ procPc = "walk"
  /\ procI >= Len(production)
  /\ procPc' = "done"
  /\ UNCHANGED <<genVars, production, lsys, turtle, procI, plantVars, gardenVars, handVars>>

ProcNext ==
  \/ ProcDraw \/ ProcMove \/ ProcTurn \/ ProcScaleAngle \/ ProcPush \/ ProcPop
  \/ ProcThickness \/ ProcFruit \/ ProcColor \/ ProcIgnore \/ ProcReturn

SpecTurtle == ProcInit /\ [][ProcNext]_vars

\* ------------------------------------------------------------------------
\* LSystem.process on longer productions: a walk that comes back near the
\* baseline, and a walk with a branch
\* ------------------------------------------------------------------------
\* With this.angle = PI / 6 a turn is one or two heading steps.  The first
\* production can move three steps at -120 degrees, two steps straight down
\* and one at 30 degrees, which ends 0.98 above the baseline, and then draws
\* upwards.
WalkInputs ==
  {<<"-", "f", "f", "f", "+", "+", "+", "+", "f", "f", "-", "f", "-", "-", "F">>,
   <<"F", "[", "+", "F", "]", "F">>}

WalkInit ==
  /\ GenIdle
  /\ production \in WalkInputs
  /\ lsys = [angle |-> 30000, fruitProbability |-> 0, colorVariation |-> FALSE]
  /\ turtle = TurtleStart(CtorAngle(lsys.angle))
  /\ procI = 0
  /\ procPc = "walk"
  /\ PlantIdle
  /\ GardenIdle
  /\ HandIdle

WalkNext ==
  ProcDraw \/ ProcMove \/ ProcTurn \/ ProcPush \/ ProcPop \/ ProcReturn

SpecWalk == WalkInit /\ [][WalkNext]_vars

\* ------------------------------------------------------------------------
\* One ToxicPlant and its callers
\* ------------------------------------------------------------------------
\* new ToxicPlant(x, y, type): the walk of the production, then the
\* constructor with its root placement.
PlantCreated(inputs) ==
  /\ GenIdle
  /\ GardenIdle
  /\ HandIdle
  /\ \E in \in inputs, scaleFactor \in ScaleFactors :
       /\ lsys = in.ls
       /\ production = in.production
       /\ turtle = Interpret(in.ls, in.production,
                             ConstantTape(in.production, in.turn))
       /\ plant = NewPlant(PlantX, PlantY, scaleFactor, turtle)
  /\ procI = Len(production)
  /\ procPc = "done"
  /\ destroyed = FALSE
  /\ lastCall = "new"
  /\ lastResult = "returned"
  /\ ticks = 0

PlantInit == PlantCreated(PlantInputs)

\* plant.update(): it returns normally, destroyed or not.
PlantUpdate ==
  /\ plant' = Update(plant)
  /\ lastCall' = "update"
  /\ lastResult' = "returned"
  /\ UNCHANGED <<genVars, production, procVars, destroyed, ticks, gardenVars, handVars>>

\* plant.draw(): it reads the plant and returns normally, destroyed or not.
PlantDraw ==
  /\ lastCall' = "draw"
  /\ lastResult' = "returned"
  /\ UNCHANGED <<genVars, production, procVars, plant, destroyed, ticks, gardenVars, handVars>>

\* plant.destroy().
PlantDestroy ==
  /\ plant' = Destroy(plant)
  /\ destroyed' = TRUE
  /\ lastCall' = "destroy"
  /\ lastResult' = "returned"
  /\ UNCHANGED <<genVars, production, procVars, ticks, gardenVars, handVars>>

PlantNext == PlantUpdate \/ PlantDraw \/ PlantDestroy

SpecPlant == PlantInit /\ [][PlantNext]_vars

\* Scenario 2: a plant is created and update() is called MaxTicks times.
TicksInit == PlantCreated(PlantInputs \cup LongInputs)

PlantTick ==
  /\ ticks < MaxTicks
  /\ plant' = Update(plant)
  /\ ticks' = ticks + 1
  /\ lastCall' = "update"
  /\ lastResult' = "returned"
  /\ UNCHANGED <<genVars, production, procVars, destroyed, gardenVars, handVars>>

SpecTicks == TicksInit /\ [][PlantTick]_vars

\* ------------------------------------------------------------------------
\* Plants of deep nesting
\* ------------------------------------------------------------------------
\* The deepest nesting of the plants below.
MaxDepth == 12

\* A production whose one segment is drawn inside depth brackets.
Nested(depth) == [k \in 1..(depth + 1) |-> IF k <= depth THEN "[" ELSE "F"]
DepthInputs ==
  {[ls |-> Ls(30000, 0), production |-> Nested(depth), turn |-> 1] :
     depth \in 0..MaxDepth}

\* The thickness of the segments to three decimals; the walk itself is the
\* walk of process().
ThreeDecimals(walked) ==
  [walked EXCEPT !.segments =
     [i \in 1..Len(walked.segments) |->
        [walked.segments[i] EXCEPT
           !.thickness = Frac((1000 * @.n) \div @.d, 1000)]]]

\* new ToxicPlant for a production of DepthInputs.
DepthsInit ==
  /\ GenIdle
  /\ GardenIdle
  /\ HandIdle
  /\ \E in \in DepthInputs, scaleFactor \in ScaleFactors :
       /\ lsys = in.ls
       /\ production = in.production
       /\ turtle = Interpret(in.ls, in.production,
                             ConstantTape(in.production, in.turn))
       /\ plant = NewPlant(PlantX, PlantY, scaleFactor, ThreeDecimals(turtle))
  /\ procI = Len(production)
  /\ procPc = "done"
  /\ destroyed = FALSE
  /\ lastCall = "new"
  /\ lastResult = "returned"
  /\ ticks = 0

SpecDepths == DepthsInit /\ [][PlantTick]_vars

\* ========================================================================
\* Properties of LSystem.generate (SpecGen)
\* ========================================================================
\* C1: for every grammar and requested iteration count, generate ends with a
\* production of at most SafetyCap symbols, after at most MaxIterations
\* passes of its loop.
C1_ProductionWithinCap ==
  genPc = "done" => (Len(production) <= SafetyCap /\ genI <= MaxIterations)

\* The grammar of scenario 1: axiom "F", the one rule F -> FF+[+F]-[-F],
\* two iterations requested.
Scenario1 ==
  /\ axiom = <<"F">>
  /\ rules = DefaultRules
  /\ config.iterations = 2

\* C2 as stated: the production of scenario 1 has length 11.
C2_Length11 == (genPc = "done" /\ Scenario1) => Len(production) = 11

\* C2, amended: the production of scenario 1 has length 56 (the rule's
\* right-hand side has 12 symbols, 4 of them F: 4 * 12 + 8 = 56).
C2_Length56 == (genPc = "done" /\ Scenario1) => Len(production) = 56

\* Scenario 1 has run both of its iterations and returned.
C2_Witness == genPc = "done" /\ Scenario1 /\ genI = 2

\* ========================================================================
\* Properties of LSystem.process (SpecTurtle)
\* ========================================================================
DrawCount(str, n) == Cardinality({j \in 1..n : str[j] \in DrawSymbols})

\* C3: when process() has ended, it has produced exactly one segment per
\* draw-forward symbol of the production; and each pass of its loop either
\* leaves the segment list alone (any other symbol) or appends one segment
\* to its end (a draw-forward symbol), so segments keep the symbols' order.
C3_SegmentPerDrawSymbol ==
  /\ [](procPc \in {"done", "threw"} =>
         Len(turtle.segments) = DrawCount(production, Len(production)))
  /\ [][procI' = procI + 1 =>
         IF production[procI'] \in DrawSymbols
         THEN /\ Len(turtle'.segments) = Len(turtle.segments) + 1
              /\ SubSeq(turtle'.segments, 1, Len(turtle.segments)) = turtle.segments
         ELSE turtle'.segments = turtle.segments]_vars

\* ------------------------------------------------------------------------
\* The garden and its callers
\* ------------------------------------------------------------------------
GardenInit ==
  /\ GenIdle
  /\ production = <<>>
  /\ ProcIdle
  /\ PlantIdle
  /\ GardenIdle
  /\ HandIdle

\* The other variables of the model, and the run's limits.
gardenFrame == <<genVars, production, procVars, plantVars, limits, handVars>>

\* Time passes between two handlers.
ClockAdvance ==
  /\ gPc = "idle"
  /\ clock < limits.clock
  /\ clock - lastPlantTime < limits.idle
  /\ clock' = clock + ClockStep
  /\ UNCHANGED <<gardenFrame, plants, lastPlantTime, created, gPc, gI,
                 passes, passStart, passUpdated, passFaulted,
                 destroyedPlants, gLast>>

\* An eviction of the newest plant instead of the oldest.
EvictNewest(ps) == SubSeq(ps, 1, Len(ps) - 1)
\* A gate that also turns a call away at exactly minTimeBetweenPlants.
TooSoonInclusive(currentTime, last) == currentTime - last <= MinTimeBetweenPlants
\* currentTime - this.lastPlantTime < this.minTimeBetweenPlants (line 34).
TooSoon(currentTime, last) == currentTime - last < MinTimeBetweenPlants
\* this.plants.length >= this.maxPlants, with plants to drop (lines 40-41).
AtCapacity(ps) == Len(ps) >= MaxPlants /\ Len(ps) > 0
\* this.plants.shift() (line 43).
Evict(ps) == Tail(ps)

\* createPlant(x, y, type) (lines 30-67): null and no change within
\* minTimeBetweenPlants of the last accepted call; else the oldest plant is
\* destroyed and dropped at capacity, and the new plant is pushed.
CreatePlant ==
  \E type \in limits.types :
    IF TooSoon(clock, lastPlantTime)
    THEN /\ gLast' = Called("createPlant", "null")
         /\ UNCHANGED <<plants, lastPlantTime, created, destroyedPlants>>
    ELSE LET kept == IF AtCapacity(plants) THEN Evict(plants) ELSE plants
         IN /\ lastPlantTime' = clock
            /\ destroyedPlants' = IF AtCapacity(plants)
                                  THEN destroyedPlants \cup {plants[1].id}
                                  ELSE destroyedPlants
            /\ plants' = Append(kept, GardenPlant(created + 1, PlantX, type))
            /\ created' = created + 1
            /\ gLast' = Called("createPlant", "plant")

\* A caller between two frames (a click, a key, the timer of setup) calls
\* createPlant.
GardenCreatePlant ==
  /\ gPc = "idle"
  /\ CreatePlant
  /\ UNCHANGED <<gardenFrame, clock, gPc, gI, passes, passStart,
                 passUpdated, passFaulted>>

\* update() (lines 70-86) enters its loop at the last plant.
GardenUpdateBegin ==
  /\ gPc = "idle"
  /\ passes < limits.passes
  /\ gPc' = "update"
  /\ gI' = Len(plants)
  /\ passes' = passes + 1
  /\ passStart' = [k \in 1..Len(plants) |-> plants[k].id]
  /\ passUpdated' = [id \in Ids(plants) |-> 0]
  /\ passFaulted' = {}
  /\ gLast' = Called("update", "running")
  /\ UNCHANGED <<gardenFrame, plants, lastPlantTime, clock, created,
                 destroyedPlants>>

\* One turn of the loop: this.plants[i].update() returns, or it throws and
\* the plant is destroyed and spliced out; then i--.
GardenUpdatePlant ==
  /\ gPc = "update"
  /\ gI >= 1
  /\ \E throws \in BOOLEAN :
       /\ throws => Cardinality(passFaulted) < limits.faults
       /\ passUpdated' = [passUpdated EXCEPT ![plants[gI].id] = @ + 1]
       /\ IF throws
          THEN /\ destroyedPlants' = destroyedPlants \cup {plants[gI].id}
               /\ plants' = RemoveAt(plants, gI)
               /\ passFaulted' = passFaulted \cup {plants[gI].id}
          ELSE /\ plants' = [plants EXCEPT ![gI].updates = @ + 1]
               /\ UNCHANGED <<destroyedPlants, passFaulted>>
  /\ gI' = gI - 1
  /\ UNCHANGED <<gardenFrame, lastPlantTime, clock, created, gPc, passes,
                 passStart, gLast>>

\* The loop ends at i < 0 and update() returns; the history of the pass
\* is dropped.
GardenUpdateEnd ==
  /\ gPc = "update"
  /\ gI = 0
  /\ gPc' = "idle"
  /\ passStart' = <<>>
  /\ passUpdated' = <<>>
  /\ passFaulted' = {}
  /\ gLast' = Called("update", "returned")
  /\ UNCHANGED <<gardenFrame, plants, lastPlantTime, clock, created, gI,
                 passes, destroyedPlants>>

\* clearPlants() (lines 111-121).
GardenClearPlants ==
  /\ gPc = "idle"
  /\ plants # <<>>
  /\ destroyedPlants' = destroyedPlants \cup Ids(plants)
  /\ plants' = <<>>
  /\ gLast' = Called("clearPlants", "returned")
  /\ UNCHANGED <<gardenFrame, lastPlantTime, clock, created, gPc, gI,
                 passes, passStart, passUpdated, passFaulted>>

GardenNext ==
  \/ ClockAdvance
  \/ GardenCreatePlant
  \/ GardenUpdateBegin
  \/ GardenUpdatePlant
  \/ GardenUpdateEnd
  \/ GardenClearPlants

SpecGarden == GardenInit /\ [][GardenNext]_vars

\* The long run of the garden.
CapacityInit ==
  /\ GenIdle
  /\ production = <<>>
  /\ ProcIdle
  /\ PlantIdle
  /\ GardenStart(LongRun)
  /\ HandIdle

SpecCapacity == CapacityInit /\ [][GardenNext]_vars

\* ------------------------------------------------------------------------
\* One frame (src/sketch.js, draw)
\* ------------------------------------------------------------------------
\* The limits of the run of frames.
FrameRun ==
  [clock |-> MaxClock, idle |-> MaxClock, passes |-> MaxPasses,
   faults |-> 1, types |-> {"simple"}]

FrameInit ==
  /\ GenIdle
  /\ production = <<>>
  /\ ProcIdle
  /\ PlantIdle
  /\ GardenStart(FrameRun)
  /\ HandIdle

\* The two loops over the plants' bodies: updateWindEffect (sketch.js,
\* lines 41-79) and applyAttractionToPlants (handAttractors.js, 118-158).
ForcePhases == {"wind", "pinch"}

\* draw() running its calls in the other order: the forces first.
PhaseAfterForcesFirst(phase) ==
  CASE phase = "idle" -> "wind"
    [] phase = "wind" -> "pinch"
    [] phase = "pinch" -> "update"
    [] phase = "update" -> "interact"
    [] OTHER -> "idle"

\* The order of draw() (lines 169-184): garden.update(), updateWindEffect(),
\* then handAttractors.update(hands), which applies the attraction and
\* then checks for a planting (handAttractors.js, lines 77 and 82).
PhaseAfter(phase) ==
  CASE phase = "idle" -> "update"
    [] phase = "update" -> "wind"
    [] phase = "wind" -> "pinch"
    [] phase = "pinch" -> "interact"
    [] OTHER -> "idle"

\* Where a call starts: garden.update at the last plant (i = length - 1),
\* a force loop at the first (for ... of).
EnterPhase(phase) ==
  /\ gPc' = phase
  /\ gI' = IF phase = "update" THEN Len(plants)
           ELSE IF phase \in ForcePhases THEN 1 ELSE 0

\* The variables no step of a frame touches.
drawFrame == <<genVars, production, procVars, plantVars, limits, attractors,
               isPinching>>

\* animationLoop calls draw(): a frame starts.
DrawBegin ==
  /\ gPc = "idle"
  /\ passes < limits.passes
  /\ passes' = passes + 1
  /\ passStart' = [k \in 1..Len(plants) |-> plants[k].id]
  /\ passUpdated' = [id \in Ids(plants) |-> 0]
  /\ passFaulted' = {}
  /\ forces' = <<>>
  /\ gLast' = Called("draw", "running")
  /\ EnterPhase(PhaseAfter("idle"))
  /\ UNCHANGED <<drawFrame, plants, lastPlantTime, clock, created,
                 destroyedPlants>>

\* garden.update() returns to draw().
DrawUpdateReturn ==
  /\ gPc = "update"
  /\ gI = 0
  /\ gLast' = Called("update", "returned")
  /\ EnterPhase(PhaseAfter("update"))
  /\ UNCHANGED <<drawFrame, forces, plants, lastPlantTime, clock, created,
                 passes, passStart, passUpdated, passFaulted,
                 destroyedPlants>>

\* One turn of a force loop: Matter.Body.applyForce on the bodies of one
\* plant.
DrawApplyForce ==
  /\ gPc \in ForcePhases
  /\ gI <= Len(plants)
  /\ forces' = Append(forces, [plant |-> plants[gI].id, by |-> gPc])
  /\ gI' = gI + 1
  /\ UNCHANGED <<drawFrame, plants, lastPlantTime, clock, created, gPc,
                 passes, passStart, passUpdated, passFaulted,
                 destroyedPlants, gLast>>

\* A force loop returns: at its end, or before its first turn when the
\* wind is not active (sketch.js, line 42) or the hand does not pinch
\* (handAttractors.js, lines 62 and 120).
DrawForcesReturn ==
  /\ gPc \in ForcePhases
  /\ gI = 1 \/ gI > Len(plants)
  /\ gLast' = Called(gPc, "returned")
  /\ EnterPhase(PhaseAfter(gPc))
  /\ UNCHANGED <<drawFrame, forces, plants, lastPlantTime, clock, created,
                 passes, passStart, passUpdated, passFaulted,
                 destroyedPlants>>

\* checkPlantInteractions (handAttractors.js, lines 161-176): createPlant
\* when the index finger is in the planting strip, and the frame ends.
DrawCheckPlantInteractions ==
  /\ gPc = "interact"
  /\ \E planting \in BOOLEAN :
       IF planting
       THEN CreatePlant
       ELSE /\ gLast' = Called("checkPlantInteractions", "returned")
            /\ UNCHANGED <<plants, lastPlantTime, created, destroyedPlants>>
  /\ EnterPhase(PhaseAfter("interact"))
  /\ UNCHANGED <<drawFrame, forces, clock, passes, passStart, passUpdated,
                 passFaulted>>

\* The handlers between two frames (time, a click or a key that plants or
\* clears) and the steps of a frame.
FrameNext ==
  \/ ClockAdvance
  \/ GardenCreatePlant
  \/ GardenClearPlants
  \/ DrawBegin
  \/ GardenUpdatePlant
  \/ DrawUpdateReturn
  \/ DrawApplyForce
  \/ DrawForcesReturn
  \/ DrawCheckPlantInteractions

SpecFrame == FrameInit /\ [][FrameNext]_vars

\* ------------------------------------------------------------------------
\* A plant under the hand
\* ------------------------------------------------------------------------
\* The plants under the hand: those of the short productions.
PinchInputs == {in \in PlantInputs : Len(in.production) <= MaxPinched}
PinchInit == PlantCreated(PinchInputs)

\* update(hands) (lines 34-82) with one hand whose index tip is above the
\* planting strip, so that checkPlantInteractions plants nothing: the
\* attractors are reset, a pinch is seen when thumb and index tip are
\* nearer than 35, and then the pinch attractor acts on the plant.
HandsUpdate ==
  \E b \in 1..Len(plant.objects), offset \in HandOffsets, spread \in HandSpreads :
    LET hand == Hand(plant.objects[b].x + offset, plant.objects[b].y, spread)
        thumbTip == hand.thumb_tip
        indexTip == hand.index_finger_tip
        pinch == DistSq(thumbTip.x, thumbTip.y, indexTip.x, indexTip.y)
                   < (PinchThreshold \div 100) * (PinchThreshold \div 100)
        attractor == [x |-> (thumbTip.x + indexTip.x) \div 2,
                      y |-> (thumbTip.y + indexTip.y) \div 2,
                      name |-> "pinch", strength |-> AttractionStrength]
    IN /\ plant.objects[b].type = "body"
       /\ indexTip.y <= PlantingStrip
       /\ isPinching' = pinch
       /\ attractors' = IF pinch THEN <<attractor>> ELSE <<>>
       /\ forces' = IF pinch THEN ApplyAttractionToPlants(plant, attractor)
                    ELSE <<>>
       /\ UNCHANGED <<genVars, production, procVars, plantVars, gardenVars>>

PinchNext == PlantUpdate \/ HandsUpdate

SpecPinch == PinchInit /\ [][PinchNext]_vars

\* ------------------------------------------------------------------------
\* A plant whose caller also calls addAngleConstraints() itself
\* ------------------------------------------------------------------------
PlantAddAngleConstraints ==
  /\ plant.angleRuns < MaxAngleRuns
  /\ plant' = AddAngleConstraints(plant)
  /\ lastCall' = "addAngleConstraints"
  /\ lastResult' = "returned"
  /\ UNCHANGED <<genVars, production, procVars, destroyed, ticks, gardenVars,
                 handVars>>

ConstraintsNext == PlantUpdate \/ PlantAddAngleConstraints

SpecConstraints == PlantInit /\ [][ConstraintsNext]_vars

\* ------------------------------------------------------------------------
\* The backend alone: a caller creates particles and springs and clears
\* ------------------------------------------------------------------------
\* The objects a run of the backend may create.
MaxObjects == 4
\* Coordinates of the particles, in thousandths.
PhysicsCoords == {0, 10000}
\* What a caller can pass for a particle: nothing (null or undefined), or a
\* body it was given by createParticle.
Handles(p) ==
  {Null} \cup {b \in 1..Len(p.objects) : p.objects[b].type = "body"}

\* lastCall is here the call with its arguments.
PhysicsCall(method, particleA, particleB) ==
  [method |-> method, particleA |-> particleA, particleB |-> particleB]

PhysicsInit ==
  /\ GenIdle
  /\ production = <<>>
  /\ ProcIdle
  /\ GardenIdle
  /\ HandIdle
  /\ plant = NoPlant
  /\ destroyed = FALSE
  /\ lastCall = PhysicsCall("new", Null, Null)
  /\ lastResult = "none"
  /\ ticks = 0

physicsFrame ==
  UNCHANGED <<genVars, production, procVars, destroyed, ticks, gardenVars,
              handVars>>

PhysicsCreateParticle ==
  /\ Len(plant.objects) < MaxObjects
  /\ \E x \in PhysicsCoords, isFixed \in BOOLEAN :
       plant' = CreateParticle(plant, x, 0, Frac(1, 1), isFixed, "caller", 0)
  /\ lastCall' = PhysicsCall("createParticle", Null, Null)
  /\ lastResult' = "body"
  /\ physicsFrame

\* createSpring(particleA, particleB, strength, restLength) with a rest
\* length given by the caller.
PhysicsCreateSpring ==
  /\ Len(plant.objects) < MaxObjects
  /\ \E particleA \in Handles(plant), particleB \in Handles(plant) :
       /\ plant' = CreateSpring(plant, particleA, particleB, Frac(1, 100),
                                GivenLength(10000))
       /\ lastCall' = PhysicsCall("createSpring", particleA, particleB)
       /\ lastResult' = IF SpringCreated(particleA, particleB)
                        THEN "constraint" ELSE "null"
  /\ physicsFrame

PhysicsClear ==
  /\ plant' = Clear(plant)
  /\ lastCall' = PhysicsCall("clear", Null, Null)
  /\ lastResult' = "returned"
  /\ physicsFrame

PhysicsNext == PhysicsCreateParticle \/ PhysicsCreateSpring \/ PhysicsClear

SpecPhysics == PhysicsInit /\ [][PhysicsNext]_vars

\* ------------------------------------------------------------------------
\* Claims about one plant (SpecPlant, SpecTicks)
\* ------------------------------------------------------------------------
\* The materialized segments: those with a spring in segmentToSpring.
Materialized == DOMAIN plant.segmentToSpring
\* The PointMass a materialized segment's start or end point is bound to.
BoundStart(i) == plant.objects[plant.segmentToSpring[i]].a
BoundEnd(i) == plant.objects[plant.segmentToSpring[i]].b
\* The PointMasses of the plant: the bodies it has created.
PointMasses == {b \in 1..Len(plant.objects) : plant.objects[b].type = "body"}

\* C4: endpoints of materialized segments with one 2-decimal key are bound
\* to one PointMass, the one the particle map holds for the key, and a
\* step never removes a key of the map or replaces its particle.
C4_OneParticlePerKey ==
  /\ [](\A i \in Materialized :
          /\ BoundStart(i) = MapGet(plant.particleMap, StartKey(plant.segments[i]))
          /\ BoundEnd(i) = MapGet(plant.particleMap, EndKey(plant.segments[i]))
          /\ BoundStart(i) \in PointMasses
          /\ BoundEnd(i) \in PointMasses)
  /\ [][\A key \in DOMAIN plant.particleMap :
          /\ key \in DOMAIN plant'.particleMap
          /\ plant'.particleMap[key] = plant.particleMap[key]]_vars

\* A growth step has materialized a segment that starts where another
\* materialized segment ends.
C4_Witness ==
  /\ lastCall = "update"
  /\ plant.lastSegmentIndex > RootSegments
  /\ \E i, j \in Materialized :
       /\ i < j
       /\ EndKey(plant.segments[i]) = StartKey(plant.segments[j])
       /\ BoundEnd(i) = BoundStart(j)

\* The PointMasses at the start or end of a materialized isRoot segment.
RootEndpoints ==
  {BoundStart(i) : i \in {k \in Materialized : plant.segments[k].isRoot}}
    \cup {BoundEnd(i) : i \in {k \in Materialized : plant.segments[k].isRoot}}
\* The PointMasses created as the start point of an isRoot segment.
CreatedAsRootStart ==
  {b \in PointMasses : /\ plant.objects[b].createdAs = "start"
                       /\ plant.segments[plant.objects[b].bySegment].isRoot}

\* C5 as stated: a PointMass is fixed exactly when it is the start or end
\* point of a materialized isRoot segment.
C5_RootEndpointsFixed ==
  \A b \in PointMasses : plant.objects[b].isStatic <=> b \in RootEndpoints

\* C5, amended: a PointMass is fixed exactly when it was created as the
\* start point of an isRoot segment; every fixed PointMass is the start
\* point of a materialized isRoot segment, and before destroy() the fixed
\* set of the backend holds exactly the fixed PointMasses.
C5_FixedIffCreatedAsRootStart ==
  /\ \A b \in PointMasses : plant.objects[b].isStatic <=> b \in CreatedAsRootStart
  /\ \A b \in PointMasses :
       plant.objects[b].isStatic =>
         \E i \in Materialized : plant.segments[i].isRoot /\ BoundStart(i) = b
  /\ ~destroyed =>
       plant.physics.fixedBodies = {b \in PointMasses : plant.objects[b].isStatic}

\* A grown plant with a fixed start point, a free end point of an isRoot
\* segment, and a segment that is no root segment.
C5_Witness ==
  /\ lastCall = "update"
  /\ plant.lastSegmentIndex = plant.totalSegments
  /\ \E i \in Materialized :
       /\ plant.segments[i].isRoot
       /\ plant.objects[BoundStart(i)].isStatic
       /\ ~plant.objects[BoundEnd(i)].isStatic
  /\ \E j \in Materialized : ~plant.segments[j].isRoot

\* C6: no step lowers the growth fraction or lastSegmentIndex; the growth
\* fraction stays in [0, 1] and lastSegmentIndex never exceeds the number
\* of segments.
C6_GrowthMonotone ==
  /\ [](/\ 0 <= plant.growth /\ plant.growth <= TargetGrowth
        /\ 0 <= plant.lastSegmentIndex
        /\ plant.lastSegmentIndex <= plant.totalSegments
        /\ plant.totalSegments = Len(plant.segments))
  /\ [][/\ plant'.growth >= plant.growth
        /\ plant'.lastSegmentIndex >= plant.lastSegmentIndex]_vars

\* Updates have driven the growth fraction to 1 and materialized segments
\* beyond the root placement, up to the last one.
C6_Witness ==
  /\ lastCall = "update"
  /\ plant.growth = TargetGrowth
  /\ plant.lastSegmentIndex = plant.totalSegments
  /\ plant.totalSegments > RootSegments

\* C7: after 200 consecutive update ticks the growth fraction is exactly 1
\* and lastSegmentIndex equals the number of segments.
C7_GrownAfter200Ticks ==
  ticks >= 200 =>
    /\ plant.growth = TargetGrowth
    /\ plant.lastSegmentIndex = plant.totalSegments

\* The 200th tick of a plant of at least 100 segments, which grows in
\* batches of more than one segment.
C7_Witness ==
  /\ ticks = 200
  /\ plant.totalSegments >= 2 * BatchDivisor
  /\ BatchSize(plant) > 1
  /\ plant.lastSegmentIndex = plant.totalSegments

\* C8: update() or draw() on a destroyed plant fails and changes nothing
\* of the plant.
C8_RejectedAfterDestroy ==
  [][(destroyed /\ lastCall' \in {"update", "draw"}) =>
       (lastResult' = "threw" /\ plant' = plant)]_vars

\* C9: when destroy() returns, the backend tracks no body, no spring and
\* no fixed body, and its composite is empty.
C9_DestroyLeavesNothingTracked ==
  lastCall = "destroy" =>
    /\ plant.physics.bodies = <<>>
    /\ plant.physics.springs = <<>>
    /\ plant.physics.fixedBodies = {}
    /\ plant.physics.composite = {}

\* destroy() of a plant with all segments, angle-constraint springs and
\* fruit particles in place.
C9_Witness ==
  /\ lastCall = "destroy"
  /\ plant.lastSegmentIndex = plant.totalSegments
  /\ plant.constraintsAdded /\ plant.fruitsAdded
  /\ plant.fruitParticles # <<>>
  /\ \E c \in 1..Len(plant.objects) :
       /\ plant.objects[c].type = "constraint"
       /\ plant.objects[c].length.kind = "cosines"

\* ------------------------------------------------------------------------
\* Claims about the garden (SpecGarden)
\* ------------------------------------------------------------------------
\* The ids of the pass's plants whose update() did not throw, in order.
Survivors == SelectSeq(passStart, LAMBDA id : id \notin passFaulted)

\* C10: when the loop of a garden.update() pass ends, update() has been
\* called exactly once on every plant of the pass; each plant whose update
\* threw has been destroyed and is no longer in this.plants; the others
\* are all still there, in their order.
C10_FaultIsolated ==
  (gPc = "update" /\ gI = 0) =>
    /\ \A k \in 1..Len(passStart) :
         /\ passUpdated[passStart[k]] = 1
         /\ passStart[k] \in passFaulted =>
              (passStart[k] \in destroyedPlants /\ passStart[k] \notin Ids(plants))
         /\ passStart[k] \notin passFaulted => passStart[k] \in Ids(plants)
    /\ [k \in 1..Len(plants) |-> plants[k].id] = Survivors

\* A pass has ended in which a plant between two others threw and its
\* neighbours did not.
C10_Witness ==
  /\ gPc = "update" /\ gI = 0
  /\ \E k \in 2..(Len(passStart) - 1) :
       /\ passStart[k] \in passFaulted
       /\ passStart[k - 1] \notin passFaulted
       /\ passStart[k + 1] \notin passFaulted

\* C11: the garden never holds more than maxPlants plants, and they stand
\* in the order of their creation; a creation accepted at capacity
\* destroys and drops the first (oldest) plant, keeps the others in order
\* and appends the new plant last.
C11_CapacityKept ==
  /\ [](/\ Len(plants) <= MaxPlants
        /\ \A k \in 1..(Len(plants) - 1) : plants[k].id < plants[k + 1].id)
  /\ [][(created' = created + 1 /\ Len(plants) >= MaxPlants) =>
          /\ Len(plants') = MaxPlants
          /\ plants' = Append(Tail(plants), plants'[MaxPlants])
          /\ plants'[MaxPlants].id = created'
          /\ plants[1].id \in destroyedPlants'
          /\ plants[1].id \notin Ids(plants')]_vars

\* The 19th creation has been accepted in a full garden that never lost a
\* plant otherwise: plant 1 is destroyed and gone, plant 19 stands last.
C11_Witness ==
  /\ passes = 0
  /\ gLast = Called("createPlant", "plant")
  /\ created = MaxPlants + 1
  /\ Len(plants) = MaxPlants
  /\ plants[1].id = 2
  /\ plants[MaxPlants].id = created
  /\ 1 \in destroyedPlants

\* C12: a createPlant call less than minTimeBetweenPlants after
\* lastPlantTime returns null and changes neither the plants nor
\* lastPlantTime; any other call is accepted and sets lastPlantTime; so
\* lastPlantTime moves only at accepted creations, by at least 600 ms.
C12_TooSoonRejected ==
  /\ [][(gLast'.call = "createPlant" /\ (gLast' # gLast \/ created' # created)) =>
          IF clock - lastPlantTime < MinTimeBetweenPlants
          THEN /\ gLast'.result = "null"
               /\ UNCHANGED <<plants, lastPlantTime, created, destroyedPlants>>
          ELSE /\ gLast'.result = "plant"
               /\ created' = created + 1
               /\ lastPlantTime' = clock]_vars
  /\ [][lastPlantTime' # lastPlantTime =>
          /\ created' = created + 1
          /\ lastPlantTime' - lastPlantTime >= MinTimeBetweenPlants]_vars

\* A call 300 ms after an accepted creation has returned null.
C12_Witness ==
  /\ gLast = Called("createPlant", "null")
  /\ created >= 1
  /\ lastPlantTime > 0
  /\ clock - lastPlantTime = ClockStep

\* ------------------------------------------------------------------------
\* Claims about the hand (SpecPinch)
\* ------------------------------------------------------------------------
\* C13: after a pinch, a free tracked PointMass at the attractor's exact
\* position has received a well-defined force that is not zero, and a free
\* PointMass farther from the attractor than the radius has received none.
C13_ForceAtAttractor ==
  (isPinching /\ attractors # <<>>) =>
    \A b \in DOMAIN forces :
      /\ (~plant.objects[b].isStatic
            /\ plant.objects[b].x = attractors[1].x
            /\ plant.objects[b].y = attractors[1].y) =>
           (forces[b].kind = "force" /\ forces[b].magnitude > 0)
      /\ (~plant.objects[b].isStatic
            /\ DistSq(attractors[1].x, attractors[1].y,
                      plant.objects[b].x, plant.objects[b].y)
                 > (AttractionRadius \div 100) * (AttractionRadius \div 100)) =>
           forces[b] = NoForce

\* ------------------------------------------------------------------------
\* Claims about the later phases of a plant
\* ------------------------------------------------------------------------
\* C14: a second addAngleConstraints() call right after a first leaves the
\* springs of the backend as they are.
C14_SecondCallAddsNothing ==
  [][(/\ lastCall = "addAngleConstraints"
      /\ lastCall' = "addAngleConstraints"
      /\ plant'.angleRuns = plant.angleRuns + 1) =>
       plant'.physics.springs = plant.physics.springs]_vars

\* C15: when the materialized-segment counter equals the total, every
\* segment of the list has been materialized exactly once.
C15_EachSegmentOnce ==
  plant.lastSegmentIndex = Len(plant.segments) =>
    \A i \in 1..Len(plant.segments) : plant.setups[i] = 1

\* The springs the backend tracks.
TrackedSprings == {plant.physics.springs[k] : k \in 1..Len(plant.physics.springs)}

\* C16: every spring the backend tracks connects two distinct PointMasses.
C16_SpringEndsDistinct ==
  \A s \in TrackedSprings : plant.objects[s].a # plant.objects[s].b

\* C17: a ticked plant that one more update() would leave as it is (and so
\* would every later one, update() being deterministic) has had its angle
\* constraints applied and, when it has fruit anchors, its fruits attached.
C17_PhasesReached ==
  (lastCall = "update" /\ Update(plant) = plant) =>
    /\ plant.constraintsAdded
    /\ Len(plant.fruits) > 0 => plant.fruitsAdded

\* The growth of the plant has completed.
GrowthCompleted ==
  /\ plant.growth = TargetGrowth
  /\ plant.lastSegmentIndex >= Len(plant.segments)
\* The pairs of distinct segments that share a start-point key.
SharedStartPairs ==
  {pair \in (1..Len(plant.segments)) \X (1..Len(plant.segments)) :
     /\ pair[1] < pair[2]
     /\ StartKey(plant.segments[pair[1]]) = StartKey(plant.segments[pair[2]])}
\* The backend tracks an angle-constraint spring between the end points of
\* the segments i and j.
AngleSpringBetween(i, j) ==
  LET endA == MapGet(plant.particleMap, EndKey(plant.segments[i]))
      endB == MapGet(plant.particleMap, EndKey(plant.segments[j]))
  IN /\ endA # Null
     /\ endB # Null
     /\ \E s \in TrackedSprings :
          /\ plant.objects[s].length.kind = "cosines"
          /\ {plant.objects[s].a, plant.objects[s].b} = {endA, endB}

\* C18: once growth has completed, every pair of distinct segments with one
\* start-point key has an angle-constraint spring between its end points.
C18_EveryPairConstrained ==
  GrowthCompleted =>
    \A pair \in SharedStartPairs : AngleSpringBetween(pair[1], pair[2])

\* C19: over the ticks of a plant addAngleConstraints() runs at most once,
\* and when it runs the materialized-segment counter is at least 80% of the
\* number of segments.
C19_ConstraintsOnceWhenMostlyBuilt ==
  /\ [](plant.angleRuns <= 1)
  /\ [][plant'.angleRuns # plant.angleRuns =>
          /\ plant.angleRuns = 0
          /\ ~plant.constraintsAdded
          /\ plant'.constraintsAdded
          /\ 5 * plant'.lastSegmentIndex >= 4 * Len(plant'.segments)]_vars
\* The step has run, before the last segment was reached, and ticks followed.
C19_Witness ==
  /\ plant.angleRuns = 1
  /\ plant.constraintsAdded
  /\ 5 * plant.lastSegmentIndex >= 4 * Len(plant.segments)
  /\ plant.lastSegmentIndex < Len(plant.segments)
  /\ SharedStartPairs # {}
  /\ \E s \in TrackedSprings : plant.objects[s].length.kind = "cosines"

\* The fruit PointMasses and the fruit springs of a plant.
FruitMasses(p) ==
  {b \in 1..Len(p.objects) :
     p.objects[b].type = "body" /\ p.objects[b].createdAs = "fruit"}
FruitSprings(p) ==
  {p.physics.springs[k] : k \in 1..Len(p.physics.springs)} \cap
    {s \in 1..Len(p.objects) :
       p.objects[s].type = "constraint" /\ p.objects[s].length.kind = "given"}
\* One fruit PointMass and one fruit spring for each fruit anchor, the
\* spring's other end a particle of the map (which holds the particles of
\* segment end points only, all created before the fruits).
FruitsAttached(after) ==
  /\ Cardinality(FruitMasses(after)) = Len(after.fruits)
  /\ Cardinality(FruitSprings(after)) = Len(after.fruits)
  /\ Len(after.fruitParticles) = Len(after.fruits)
  /\ \A b \in FruitMasses(after) :
       Cardinality({s \in FruitSprings(after) : after.objects[s].b = b}) = 1
  /\ \A s \in FruitSprings(after) :
       /\ after.objects[s].b \in FruitMasses(after)
       /\ after.objects[s].a \in
            {after.particleMap[k] : k \in DOMAIN after.particleMap}
       /\ after.objects[s].a < after.objects[s].b
\* Every segment of the list has been given its physics.
EverySegmentMaterialized(p) ==
  \A i \in 1..Len(p.segments) : p.setups[i] >= 1

\* C20: over the ticks of a plant addFruits() runs at most once and not
\* before every segment is materialized; after it ran the plant has one
\* fruit PointMass and one fruit spring for each fruit anchor, each spring
\* tied to a particle the map already held.
C20_FruitsOnceWhenBuilt ==
  /\ [](plant.fruitRuns <= 1)
  /\ [][plant'.fruitRuns # plant.fruitRuns =>
          /\ EverySegmentMaterialized(plant')
          /\ FruitsAttached(plant')]_vars
  /\ [](plant.fruitRuns = 1 => FruitsAttached(plant))

\* ------------------------------------------------------------------------
\* Claims about the order and the end of the phases of a plant
\* ------------------------------------------------------------------------
\* C21: a plant whose fruits have been attached has had its angle constraints
\* applied: the fruits flag is never set before the constraints flag, and
\* addFruits() never runs before addAngleConstraints() has run.
C21_ConstraintsBeforeFruits ==
  /\ [](plant.fruitsAdded => plant.constraintsAdded)
  /\ [](plant.fruitRuns >= 1 => plant.angleRuns >= 1)
\* The fruits of a plant with fruit anchors have been attached by a tick.
C21_Witness ==
  /\ lastCall = "update"
  /\ Len(plant.fruits) > 0
  /\ plant.fruitsAdded
  /\ plant.fruitRuns = 1
  /\ plant.angleRuns = 1

\* The structure of a plant: its maps, what the backend tracks, the counter
\* and the phase flags.
Structure(p) ==
  <<p.particleMap, p.segmentToSpring, p.physics, p.objects, p.fruitParticles,
    p.lastSegmentIndex, p.growingPhase, p.constraintsAdded, p.fruitsAdded>>
\* Every segment is materialized and the fruit attachment is done.
Completed(p) ==
  /\ EverySegmentMaterialized(p)
  /\ Len(p.fruits) > 0 => p.fruitsAdded

\* C22: once every segment is materialized and the fruits are attached, a
\* further update tick leaves the structure of the plant as it is.
C22_SteadyStructure ==
  [][(Completed(plant) /\ ticks' = ticks + 1) =>
       Structure(plant') = Structure(plant)]_vars
\* A completed plant with fruits that has been ticked to the end of the run.
C22_Witness ==
  /\ Completed(plant)
  /\ plant.fruitRuns = 1
  /\ plant.growth = TargetGrowth
  /\ ticks = MaxTicks

\* The segments a step passes to setupSegmentPhysics.
NewlySet ==
  {i \in 1..Len(plant.segments) : plant'.setups[i] # plant.setups[i]}

\* C23: one update tick materializes at most max(1, floor(total / 50))
\* segments, each once, and none when the counter is already at or above
\* floor(growth * total) for the growth the tick has reached.
C23_BatchBounded ==
  [][ticks' = ticks + 1 =>
       /\ Cardinality(NewlySet) <= Max(1, plant.totalSegments \div 50)
       /\ \A i \in NewlySet : plant'.setups[i] = plant.setups[i] + 1
       /\ plant'.lastSegmentIndex - plant.lastSegmentIndex = Cardinality(NewlySet)
       /\ plant.lastSegmentIndex >=
            (plant'.growth * plant.totalSegments) \div TargetGrowth
          => NewlySet = {}]_vars
\* A plant of 100 segments or more, whose batch is more than one segment,
\* has grown by a whole batch in its last tick.
C23_Witness ==
  /\ plant.totalSegments >= 100
  /\ lastCall = "update"
  /\ plant.lastSegmentIndex >= RootSegments + 2 * (plant.totalSegments \div 50)
  /\ plant.lastSegmentIndex < plant.totalSegments

\* ------------------------------------------------------------------------
\* Claims about the backend (SpecPhysics)
\* ------------------------------------------------------------------------
\* C24: createSpring with a missing particle as either end returns null and
\* leaves the composite, the tracked springs and the tracked bodies as they
\* were; nothing is created.
C24_NullSpringRejected ==
  [][(/\ lastCall'.method = "createSpring"
      /\ lastCall'.particleA = Null \/ lastCall'.particleB = Null) =>
       /\ lastResult' = "null"
       /\ plant'.physics = plant.physics
       /\ plant'.objects = plant.objects]_vars
\* A spring was asked for between a body and nothing, with bodies and a
\* spring already tracked.
C24_Witness ==
  /\ lastCall.method = "createSpring"
  /\ lastCall.particleA # Null
  /\ lastCall.particleB = Null
  /\ lastResult = "null"
  /\ Len(plant.physics.bodies) >= 2
  /\ Len(plant.physics.springs) >= 1

\* ------------------------------------------------------------------------
\* Claims about the weighted rules of generate (SpecGen)
\* ------------------------------------------------------------------------
\* The sum of the probabilities of the first k entries of a weighted rule.
RECURSIVE CumulativeTo(_, _)
CumulativeTo(entries, k) ==
  IF k = 0 THEN 0 ELSE CumulativeTo(entries, k - 1) + entries[k].probability
\* What the symbol current becomes under the draw rand: for a weighted rule
\* the first entry whose cumulative probability is above the draw, or the
\* symbol itself when there is none; the symbol itself when it has no rule.
Chosen(table, current, rand) ==
  IF current \notin DOMAIN table THEN <<current>>
  ELSE IF table[current].kind = "array"
  THEN LET entries == table[current].entries
           above == {k \in 1..Len(entries) : CumulativeTo(entries, k) > rand}
       IN IF above = {} THEN <<current>>
          ELSE entries[CHOOSE k \in above : \A m \in above : k <= m].rule
  ELSE Replacement(table, current, rand)
\* The concatenation of what the symbols lo..hi of str become.
RECURSIVE ChosenFor(_, _, _, _, _)
ChosenFor(table, str, drawn, lo, hi) ==
  IF lo > hi THEN <<>>
  ELSE IF lo = hi
       THEN Chosen(table, str[lo], IF lo \in DOMAIN drawn THEN drawn[lo] ELSE 0)
       ELSE LET mid == (lo + hi) \div 2
            IN ChosenFor(table, str, drawn, lo, mid)
                 \o ChosenFor(table, str, drawn, mid + 1, hi)

\* C25: a pass of generate replaces a symbol with a weighted rule by the
\* first entry, in table order, whose cumulative probability is above the
\* draw made for it, keeps it when no entry is, and keeps a symbol with no
\* rule.
C25_WeightedChoice ==
  [][(genPc = "loop" /\ (genI' = genI + 1 \/ genPc' = "exit")) =>
       LET nextGen == ChosenFor(rules, result, picks', 1, Len(result))
       IN result' = IF Len(nextGen) > 2000 THEN SubSeq(nextGen, 1, 2000)
                    ELSE nextGen]_vars
\* After a pass that kept the weighted symbol A of the axiom AF (no entry
\* above the draw), a pass has drawn the first cumulative probability for
\* it and replaced it by the second entry.
C25_Witness ==
  /\ rules = WeightedGrammar.rules
  /\ genI >= 2
  /\ DOMAIN picks = {1}
  /\ picks[1] = 50
  /\ result = <<"B", "F">>

\* ------------------------------------------------------------------------
\* Claims about the stack of the turtle (SpecTurtle)
\* ------------------------------------------------------------------------
\* The number of push symbols among the first n symbols of str that are not
\* yet popped: a pop with nothing to pop counts for nothing.
RECURSIVE Unpopped(_, _)
Unpopped(str, n) ==
  IF n = 0 THEN 0
  ELSE LET before == Unpopped(str, n - 1)
       IN IF str[n] = "[" THEN before + 1
          ELSE IF str[n] = "]" /\ before > 0 THEN before - 1
          ELSE before
\* Where the turtle is, and how it draws.
Pose(t) == <<t.x, t.y, t.angle, t.thickness, t.color>>
\* The pass the turtle has just made popped the push at position k.
PopMatches(k) ==
  /\ procI > k
  /\ production[k] = "["
  /\ production[procI] = "]"
  /\ Unpopped(production, procI) = Unpopped(production, k - 1)
  /\ \A m \in k..(procI - 1) : Unpopped(production, m) > Unpopped(production, k - 1)

\* C26: the depth of a segment is the number of pushes not yet popped when
\* it is drawn; a pop restores position, heading, thickness and color to
\* what the matching push saved, which is what they were before that push,
\* and the push itself changes the thickness alone, by 3/4.
C26_DepthAndRestore ==
  /\ [][(procPc = "walk" /\ procI' = procI + 1 /\ ~turtle'.threw) =>
          LET char == production[procI + 1]
              depth == Unpopped(production, procI)
          IN /\ Len(turtle.stack) = depth
             /\ char \in DrawSymbols =>
                  /\ Len(turtle'.segments) = Len(turtle.segments) + 1
                  /\ turtle'.segments[Len(turtle'.segments)].depth = depth
             /\ char = "[" =>
                  /\ Len(turtle'.stack) = depth + 1
                  /\ Pose(turtle') = <<turtle.x, turtle.y, turtle.angle,
                                       Times(turtle.thickness, 3, 4), turtle.color>>
                  /\ LET state == turtle'.stack[depth + 1]
                     IN <<state.x, state.y, state.angle, state.thickness,
                          state.color>> = Pose(turtle)
             /\ (char = "]" /\ depth > 0) =>
                  /\ Len(turtle'.stack) = depth - 1
                  /\ LET state == turtle.stack[depth]
                     IN Pose(turtle') = <<state.x, state.y, state.angle,
                                          state.thickness, state.color>>
             /\ char \notin {"[", "]"} => turtle'.stack = turtle.stack]_vars
  /\ [](\A k \in 1..Len(production) :
          (PopMatches(k) /\ Unpopped(production, k - 1) = 0
             /\ \A m \in 1..(k - 1) : production[m] \notin KnownSymbols) =>
            Pose(turtle) = Pose(TurtleStart(DefaultAngle)))
\* A segment was drawn inside a branch and the branch was closed.
C26_Witness ==
  /\ procPc = "done"
  /\ Len(production) >= 3
  /\ production[1] = "["
  /\ PopMatches(1)
  /\ procI = Len(production)
  /\ Len(turtle.segments) = 1
  /\ turtle.segments[1].depth = 1
  /\ turtle.segments[1].thickness = Frac(3, 4)
  /\ turtle.thickness = Frac(1, 1)

\* ------------------------------------------------------------------------
\* Claims about the root flag (SpecWalk)
\* ------------------------------------------------------------------------
\* A segment lies wholly above the baseline y = 0 (y grows downwards).
WhollyAbove(segment) == segment.y1 < 0 /\ segment.y2 < 0

\* C27: a segment flagged isRoot was drawn at depth 0 and lies at or below
\* the baseline; a segment drawn inside a branch or lying wholly above the
\* baseline is not flagged.
C27_RootOnlyAtBaseline ==
  \A k \in 1..Len(turtle.segments) :
    LET segment == turtle.segments[k]
    IN /\ segment.isRoot => (segment.depth = 0 /\ ~WhollyAbove(segment))
       /\ (segment.depth > 0 \/ WhollyAbove(segment)) => ~segment.isRoot

\* C28: within a frame, garden.update has run for every plant before a
\* force is applied to any (the wind first, then the attraction of the
\* pinch), and while a force loop iterates the plants no plant is created,
\* grown or destroyed.
UpdatedInFrame(id) == id \in DOMAIN passUpdated /\ passUpdated[id] = 1
ForcesAfterUpdate ==
  /\ gPc \in ForcePhases => \A k \in 1..Len(plants) : UpdatedInFrame(plants[k].id)
  /\ \A k \in 1..Len(forces) : UpdatedInFrame(forces[k].plant)
  /\ \A j, k \in 1..Len(forces) :
       (j < k /\ forces[j].by = "pinch") => forces[k].by = "pinch"
StructureKept ==
  /\ plants' = plants
  /\ created' = created
  /\ destroyedPlants' = destroyedPlants
C28_UpdateBeforeForces ==
  /\ [](ForcesAfterUpdate)
  /\ [][(gPc \in ForcePhases) => StructureKept]_vars
C28_Witness ==
  /\ gPc = "interact"
  /\ Len(plants) = 2
  /\ \E j, k \in 1..Len(forces) : forces[j].by = "wind" /\ forces[k].by = "pinch"
  /\ destroyedPlants # {}

\* ========================================================================
\* Properties of the point masses (SpecDepths)
\* ========================================================================
\* C29: at every depth the interpreter can produce and every positive
\* thickness, the mass given to the end point of a segment is strictly
\* less than the mass given to a start point of that depth and thickness.
\* Both masses of one segment have one denominator, 10 * 1000 * thickness.d.
MassLess(a, b) == a.d = b.d /\ a.n < b.n
MassPairs ==
  {<<a, b>> \in (1..Len(plant.objects)) \X (1..Len(plant.objects)) :
     /\ plant.objects[a].type = "body"
     /\ plant.objects[b].type = "body"
     /\ plant.objects[a].createdAs = "start"
     /\ plant.objects[b].createdAs = "end"
     /\ plant.objects[a].bySegment = plant.objects[b].bySegment}
C29_TipLighterThanJoint ==
  \A pair \in MassPairs :
    MassLess(plant.objects[pair[2]].mass, plant.objects[pair[1]].mass)

\* ========================================================================
\* Properties of the color-shift symbol (SpecTurtle)
\* ========================================================================
\* C30: with color variation enabled, the pass of process() for a 'c'
\* changes nothing but the turtle's color (no segment, the same position,
\* heading, thickness and stack), and the walk goes on with the symbols
\* after it.
ColorAside(t) ==
  <<t.x, t.y, t.angle, t.thisAngle, t.thickness, t.stack, t.segments, t.fruits>>
C30_ColorShiftOnly ==
  [][(procI' = procI + 1 /\ production[procI'] = "c" /\ lsys.colorVariation)
       => (ColorAside(turtle') = ColorAside(turtle) /\ procPc' = "walk")]_vars

============================================================================
